---------------------------- MODULE Spec2Model ----------------------------
(***************************************************************************)
(* A model of QClassiPy's core: the tile overlap detector                  *)
(* (core/positions.py), the two-mosaic merge (gui/merge_masks.py) and the  *)
(* pixel/polygon engine (core/polyimage.py, core/gdal_tools.py).           *)
(*                                                                         *)
(* Conventions.  numpy arrays and pandas columns are 0-based; the          *)
(* sequences of this module are 1-based, so tile index k of the code is    *)
(* row k+1 here.  Pixel and tile coordinates keep the code's 0-based       *)
(* values.  A mosaic is a record [shape, dtype, pix, band_names,           *)
(* metadata]: shape is <<bands, rows, cols>> and pix maps                  *)
(* <<row, col, band>>, band counted from 1, to the value of the cell.      *)
(***************************************************************************)
EXTENDS Integers, Sequences, FiniteSets, TLC

VARIABLES
    \* ---- positionOverlaps(x_min, y_min, height, width) ----
    ov_args,        \* the four argument arrays of one call
    overlap_list,   \* its outcome: [raised, lists]
    ov_pc,          \* "ready" | "done"
    \* ---- QClassiPyMergeMasks ----
    list1,          \* tile manifest 1 as read from its csv (rows in file order)
    list2,          \* tile manifest 2
    mask1,          \* mosaic named by manifest 1
    mask2,          \* mosaic named by manifest 2
    save_ok,        \* [mask, list]: does each output path pass the path test
    ui_err,         \* the error labels the tab currently shows
    out_mask,       \* the merged mosaic file (NoFile while not written)
    out_list,       \* the merged manifest file (NoFile while not written)
    merge_pc,       \* "ready" | "aborted" | "raised" | "written"
    \* ---- PolyImage ----
    img_args,       \* [transform, shape]: the constructor's arguments
    poly_img,       \* the PolyImage once constructed
    sel_key,        \* the key of the last poly_img[key]
    sel,            \* its outcome: [raised, image]
    img_pc,         \* "new" | "built" | "selected"
    \* ---- a PolyArray or PolyImage under a sequence of calls ----
    pa,             \* the collection the next call is made on
    pa_call,        \* the last call: its arguments, receiver before and after, outcome
    pa_calls,       \* number of calls made so far
    \* ---- PolyArray.to_gpkg ----
    gp_img,         \* the collection exported
    gp_args,        \* [dissolve_by, keep_only_dissolve_band, null_values]
    gp_out,         \* [feature_count, features]
    gp_pc,          \* "ready" | "done"
    \* ---- gridPositions(ylims, xlims, image_size, start, spacing) ----
    grid_args,      \* the arguments of one call
    grid_out,       \* its outcome: [raised, pos_y, pos_x]
    grid_pc,        \* "ready" | "done"
    \* ---- generateTiff(outfile, band_dict, transform, shape, crs) ----
    tiff_args,      \* [gdal_version, ext, dtypes]: the build and the arguments
    tiff_out,       \* its outcome: [raised, gdal_dtype, bands]
    tiff_pc,        \* "ready" | "done"
    \* ---- the memory behind the bands of two collections ----
    al_mem,         \* address -> the cells of the buffer allocated there
    al_caller,      \* the arrays the caller built the first collection from
    al_src,         \* the collection built by the caller
    al_dst,         \* the collection a call on al_src returned (no bands: none yet)
    al_last,        \* the last assignment: [target, before], before being al_mem
    al_pc,          \* "built" | "derived" | "assigned"
    \* ---- QClassiPyDrawMask: the Draw-mask tab, one band ----
    dm_raster,      \* the raster file: [pix, meta], meta its qclassipy_values
    dm_bands,       \* poly_img.bands[band_name], <<>> while poly_img is None
    dm_categories,  \* the classes of the band, in dropdown order
    dm_null_value,  \* null_value
    dm_draw_value,  \* draw_value
    dm_img_saved,   \* img_saved
    dm_file_df,     \* [present, priority]: is a tile list held, the tile's priority
    dm_closing,     \* the last dismantle(): [changed, warned, ret]
    dm_pc           \* "just_started" | "loaded" | "closed"

mergeVars   == <<list1, list2, mask1, mask2, save_ok, ui_err, out_mask, out_list, merge_pc>>
overlapVars == <<ov_args, overlap_list, ov_pc>>
imageVars   == <<img_args, poly_img, sel_key, sel, img_pc>>
arrayVars   == <<pa, pa_call, pa_calls>>
gpkgVars    == <<gp_img, gp_args, gp_out, gp_pc>>
gridVars    == <<grid_args, grid_out, grid_pc>>
tiffVars    == <<tiff_args, tiff_out, tiff_pc>>
aliasVars   == <<al_mem, al_caller, al_src, al_dst, al_last, al_pc>>
drawVars    == <<dm_raster, dm_bands, dm_categories, dm_null_value, dm_draw_value,
                 dm_img_saved, dm_file_df, dm_closing, dm_pc>>
restVars    == <<tiffVars, aliasVars, drawVars>>

\* A path at which nothing has been written.
NoFile == [exists |-> FALSE]

(***************************************************************************)
(* Bounds of the model.                                                    *)
(***************************************************************************)
\* rows of mosaic 1
GridH == 2
\* columns of mosaic 1
GridW == 3
\* largest x_min / y_min handed to positionOverlaps
MaxCoord == 2
\* largest height / width handed to positionOverlaps
MaxSize == 3
\* rows of a PolyImage
MaxRows == 2
\* columns of a PolyImage
MaxCols == 3
\* largest |pixel width| and |pixel height| of a transform
MaxScale == 2
\* largest |rotation coefficient| of a transform
MaxRot == 1
\* rows of the collection a sequence of calls starts from
ArrH == 2
\* columns of the collection a sequence of calls starts from
ArrW == 2
\* calls made on a collection in sequence
MaxCalls == 2
\* rows of an exported collection
GpkgH == 2
\* columns of an exported collection
GpkgW == 2
\* largest upper limit handed to gridPositions
MaxLim == 5
\* largest tile height / width handed to gridPositions
MaxTile == 2
\* largest integer spacing handed to gridPositions
MaxStep == 2

\* The manifests of the model have two rows (the P and Q of the merge
\* scenarios); positionOverlaps is called on two tiles as well.
TileIdx == {1, 2}

(***************************************************************************)
(* gui/constants.py: Priorities                                            *)
(***************************************************************************)
COMPLETED_PRIORITY   == 0
UNCOMPLETED_PRIORITY == 1

(***************************************************************************)
(* core/positions.py: positionOverlaps                                     *)
(***************************************************************************)
ValueError == [raised |-> TRUE]

positionOverlaps(x_min, y_min, height, width) ==
    IF ~(Len(x_min) = Len(y_min) /\ Len(y_min) = Len(height) /\ Len(height) = Len(width))
    THEN ValueError
    ELSE
      LET n == Len(x_min)
          y_max == [i \in 1..n |-> y_min[i] + height[i]]
          x_max == [i \in 1..n |-> x_min[i] + width[i]]
          x_between(i, j) ==
              \/ (x_min[i] >= x_min[j] /\ x_min[i] < x_max[j])
              \/ (x_max[i] >= x_min[j] /\ x_max[i] < x_max[j])
          y_between(i, j) ==
              \/ (y_min[i] >= y_min[j] /\ y_min[i] < y_max[j])
              \/ (y_max[i] >= y_min[j] /\ y_max[i] < y_max[j])
          overlap(i, j) == x_between(i, j) /\ y_between(i, j)
          \* overlap | transpose(overlap), then the diagonal is cleared
          overlapT(i, j) == (overlap(i, j) \/ overlap(j, i)) /\ i # j
      IN  [raised |-> FALSE,
           lists  |-> [i \in 1..n |-> {j \in 1..n : overlapT(i, j)}]]

\* One call of positionOverlaps on the arrays drawn by InitOverlaps.
CallPositionOverlaps ==
    /\ ov_pc = "ready"
    /\ ov_pc' = "done"
    /\ overlap_list' = positionOverlaps(ov_args.x_min, ov_args.y_min,
                                        ov_args.height, ov_args.width)
    /\ UNCHANGED <<ov_args, mergeVars, imageVars, arrayVars, gpkgVars, gridVars, restVars>>

(***************************************************************************)
(* gui/merge_masks.py: QClassiPyMergeMasks.listsMasksCompatible            *)
(***************************************************************************)
\* A manifest row: [x, y, width, height, priority, filename].
Rect(row) == <<row.x, row.y, row.height, row.width>>

\* DataFrame.sort_values(['x','y'], ignore_index=True): a stable sort on the
\* key (x, y); rows with equal keys keep the order of the file.
KeyLE(a, b) == a.x < b.x \/ (a.x = b.x /\ a.y <= b.y)

RECURSIVE InsertRow(_, _)
InsertRow(row, s) ==
    IF s = <<>> THEN <<row>>
    ELSE IF KeyLE(Head(s), row) THEN <<Head(s)>> \o InsertRow(row, Tail(s))
    ELSE <<row>> \o s

RECURSIVE sort_values(_)
sort_values(df) ==
    IF df = <<>> THEN <<>>
    ELSE InsertRow(df[Len(df)], sort_values(SubSeq(df, 1, Len(df) - 1)))

\* Both manifests are taken to pass listCheck and both mosaics to open
\* (valid1 and valid2 hold), so the first early return is not taken.
listsMasksCompatible(l1, l2, m1, m2) ==
    LET masks_compatible == m1.shape = m2.shape /\ m1.dtype = m2.dtype
        list1_df == sort_values(l1)
        list2_df == sort_values(l2)
        lists_compatible ==
            [k \in DOMAIN list1_df |-> Rect(list1_df[k])]
              = [k \in DOMAIN list2_df |-> Rect(list2_df[k])]
    IN  [compatible |-> lists_compatible,
         errs       |-> (IF masks_compatible THEN {} ELSE {"shape_err"})
                          \cup (IF lists_compatible THEN {} ELSE {"tile_err"}),
         list1_df   |-> list1_df,
         list2_df   |-> list2_df]

(***************************************************************************)
(* numpy: dst[:, y:y+height, x:x+width] = src[:, y:y+height, x:x+width]    *)
(***************************************************************************)
\* Values of an unsigned dtype; storing into an array converts to its dtype.
Modulus(dtype) == IF dtype = "uint8" THEN 256 ELSE 65536
Cast(v, dtype) == v % Modulus(dtype)

\* The indices a slice start:start+size selects on an axis of length dim
\* (start >= 0): the slice is clipped to the axis.
SliceIdx(start, size, dim) == {i \in 0..(dim - 1) : start <= i /\ i < start + size}

\* The assignment broadcasts: on each axis the source slice must be as long as
\* the destination slice or have length 1, otherwise numpy raises ValueError.
AssignRegion(dst, src, x, y, height, width) ==
    LET dr == SliceIdx(y, height, dst.shape[2])
        dc == SliceIdx(x, width, dst.shape[3])
        sr == SliceIdx(y, height, src.shape[2])
        sc == SliceIdx(x, width, src.shape[3])
        rows_equal == Cardinality(sr) = Cardinality(dr)
        cols_equal == Cardinality(sc) = Cardinality(dc)
        bands_fit  == src.shape[1] = dst.shape[1] \/ src.shape[1] = 1
        rows_fit   == rows_equal \/ Cardinality(sr) = 1
        cols_fit   == cols_equal \/ Cardinality(sc) = 1
        \* the source cell stored at destination cell <<r, c, b>>
        from(r, c, b) == <<IF rows_equal THEN r ELSE y, IF cols_equal THEN c ELSE x,
                           IF src.shape[1] = dst.shape[1] THEN b ELSE 1>>
    IN  IF ~(bands_fit /\ rows_fit /\ cols_fit)
        THEN ValueError
        ELSE [raised |-> FALSE,
              arr    |-> [dst EXCEPT !.pix =
                            [p \in DOMAIN dst.pix |->
                               IF p[1] \in dr /\ p[2] \in dc
                               THEN Cast(src.pix[from(p[1], p[2], p[3])], dst.dtype)
                               ELSE dst.pix[p]]]]

\* for index in idxs: final_mask[tile of df[index]] = src[tile of df[index]]
RECURSIVE PasteTiles(_, _, _, _)
PasteTiles(dst, src, df, idxs) ==
    IF idxs = <<>> THEN [raised |-> FALSE, arr |-> dst]
    ELSE LET t == df[Head(idxs)]
             r == AssignRegion(dst, src, t.x, t.y, t.height, t.width)
         IN  IF r.raised THEN ValueError
             ELSE PasteTiles(r.arr, src, df, Tail(idxs))

(***************************************************************************)
(* gui/merge_masks.py: QClassiPyMergeMasks.mergeMasks                      *)
(***************************************************************************)
\* df.index.values after ignore_index=True: the row numbers, ascending.
RowIndex(df) == [k \in 1..Len(df) |-> k]

Range(s) == {s[k] : k \in DOMAIN s}

completed_1not2(list1_df, list2_df) ==
    LET Test(k) == list1_df[k].priority = COMPLETED_PRIORITY
                   /\ list2_df[k].priority # COMPLETED_PRIORITY
    IN  SelectSeq(RowIndex(list1_df), Test)

\* completed_2not1 with the two tests exchanged.
completed_2not1_exchanged(list1_df, list2_df) ==
    LET Test(k) == list1_df[k].priority = COMPLETED_PRIORITY
                   /\ list2_df[k].priority # COMPLETED_PRIORITY
    IN  SelectSeq(RowIndex(list1_df), Test)

completed_2not1(list1_df, list2_df) ==
    LET Test(k) == list1_df[k].priority # COMPLETED_PRIORITY
                   /\ list2_df[k].priority = COMPLETED_PRIORITY
    IN  SelectSeq(RowIndex(list1_df), Test)

completed_1and2(list1_df, list2_df) ==
    LET Test(k) == list1_df[k].priority = COMPLETED_PRIORITY
                   /\ list2_df[k].priority = COMPLETED_PRIORITY
    IN  SelectSeq(RowIndex(list1_df), Test)

completed_1(list1_df, list2_df) ==
    completed_1not2(list1_df, list2_df) \o completed_1and2(list1_df, list2_df)

completed_2(list1_df, list2_df) ==
    completed_2not1(list1_df, list2_df) \o completed_1and2(list1_df, list2_df)

\* Line 290: the call hands column 'y' to the parameter x_min and column 'x'
\* to the parameter y_min, 'height' to height and 'width' to width.
Column(df, c) == [k \in DOMAIN df |-> df[k][c]]

overlaps(list1_df) ==
    positionOverlaps(Column(list1_df, "y"), Column(list1_df, "x"),
                     Column(list1_df, "height"), Column(list1_df, "width"))

\* final_list without line 309: no row takes its columns from list 2.
final_list_onlyList1(list1_df, list2_df) ==
    LET c1     == Range(completed_1(list1_df, list2_df))
        c2not1 == Range(completed_2not1(list1_df, list2_df))
    IN  [k \in DOMAIN list1_df |->
           [x         |-> list1_df[k].x,
            y         |-> list1_df[k].y,
            width     |-> list1_df[k].width,
            height    |-> list1_df[k].height,
            filename  |-> list1_df[k].filename,
            priority  |-> list1_df[k].priority,
            overlap   |-> FALSE,
            tile_list |-> IF k \in c1 THEN 1 ELSE IF k \in c2not1 THEN 2 ELSE -1]]

\* Lines 305-329.  Both manifests of the model have the same columns, so
\* cols_2not1 is empty and every column is shared.
final_list(list1_df, list2_df) ==
    LET c1not2 == Range(completed_1not2(list1_df, list2_df))
        c2not1 == Range(completed_2not1(list1_df, list2_df))
        c1and2 == Range(completed_1and2(list1_df, list2_df))
        c1     == Range(completed_1(list1_df, list2_df))
        c2     == Range(completed_2(list1_df, list2_df))
        ov     == overlaps(list1_df).lists
        base(k)    == IF k \in c2not1 THEN list2_df[k] ELSE list1_df[k]
        overlap(k) == IF k \in c1and2 THEN TRUE
                      ELSE IF k \in c1not2 THEN ov[k] \cap c2 # {}
                      ELSE IF k \in c2not1 THEN ov[k] \cap c1 # {}
                      ELSE FALSE
    IN  [k \in DOMAIN list1_df |->
           [x         |-> base(k).x,
            y         |-> base(k).y,
            width     |-> base(k).width,
            height    |-> base(k).height,
            filename  |-> base(k).filename,
            priority  |-> IF overlap(k) THEN COMPLETED_PRIORITY ELSE base(k).priority,
            overlap   |-> overlap(k),
            tile_list |-> IF k \in c1 THEN 1 ELSE IF k \in c2not1 THEN 2 ELSE -1]]

\* final_mask without its second loop: the tiles of list 1 are not pasted again.
final_mask_noRepaste(m1, m2, list1_df, list2_df) ==
    PasteTiles(m1, m2, list2_df, completed_2not1(list1_df, list2_df))

\* Lines 331-350: mask1.copy(), then mosaic 2 pasted into the tiles completed
\* only in list 2, then mosaic 1 pasted again into the tiles completed in list 1.
final_mask(m1, m2, list1_df, list2_df) ==
    LET step1 == PasteTiles(m1, m2, list2_df, completed_2not1(list1_df, list2_df))
    IN  IF step1.raised THEN ValueError
        ELSE PasteTiles(step1.arr, m1, list1_df, completed_1(list1_df, list2_df))

(***************************************************************************)
(* mergeMasks, lines 354-445: band names and symbology of the merged mask  *)
(***************************************************************************)
\* A mosaic file carries, besides its pixels, one description per band
\* (GetDescription, "" when unset) and a metadata dictionary (GetMetadata).
\* Of the metadata only the slot 'qclassipy_values' is read: has_values says
\* whether the slot exists, and literal stands for the string it holds, given
\* by what ast.literal_eval makes of it:
\*   [kind |-> "unparsable"]            literal_eval raises
\*   [kind |-> "list"]                  a literal that is not a mapping
\*   [kind |-> "dict", bands |-> d]     a mapping band name -> values_dict,
\* a values_dict being a mapping value -> [label, is_null].
NoMetadata == [has_values |-> FALSE, literal |-> [kind |-> "unparsable"]]

\* str(i + 1) for the band at 0-based index i, that is at index k = i + 1 here.
str(k) == <<"1", "2", "3", "4", "5", "6", "7", "8", "9">>[k]

\* Lines 354-370: the list band_names.
merged_band_names(band_names1, band_names2) ==
    [k \in DOMAIN band_names1 |->
        IF band_names1[k] # "" THEN band_names1[k]
        ELSE IF band_names2[k] # "" THEN band_names2[k]
        ELSE str(k)]

\* Lines 359-374: every name non-empty, and no name twice.
valid_bands(names) ==
    /\ \A k \in DOMAIN names : names[k] # ""
    /\ Len(names) = Cardinality(Range(names))

\* Line 382.
empty_band_values_dict(names) ==
    [kind |-> "dict", bands |-> [b \in Range(names) |-> <<>>]]

\* Lines 384-400: the try covers the parse alone; what the literal denotes is
\* taken as it comes.
band_values_dict(metadata, valid, names) ==
    IF metadata.has_values /\ valid
    THEN IF metadata.literal.kind = "unparsable"
         THEN empty_band_values_dict(names)
         ELSE metadata.literal
    ELSE empty_band_values_dict(names)

\* Lines 410-411: band_values_dict[band_name], outside any try.
Subscript(d, key) ==
    IF d.kind # "dict" THEN [raised |-> "TypeError"]
    ELSE IF key \notin DOMAIN d.bands THEN [raised |-> "KeyError"]
    ELSE [raised |-> "None", value |-> d.bands[key]]

\* Lines 419-435, the null value the loop over the ascending values leaves.
RECURSIVE null_value_loop(_, _, _, _)
null_value_loop(values, values_dict1, values_dict2, null_value) ==
    IF values = {} THEN null_value
    ELSE LET value == CHOOSE v \in values : \A u \in values : v <= u
             next  == IF value \in DOMAIN values_dict1
                      THEN IF values_dict1[value].is_null
                           THEN [none |-> FALSE, v |-> value] ELSE null_value
                      ELSE IF value \in DOMAIN values_dict2
                      THEN IF values_dict2[value].is_null /\ null_value.none
                           THEN [none |-> FALSE, v |-> value] ELSE null_value
                      ELSE null_value
         IN  null_value_loop(values \ {value}, values_dict1, values_dict2, next)

\* Lines 413-443 for one band.  The colours (lines 437 and 443) are left out.
final_values_dict(uniq_mask, values_dict1, values_dict2) ==
    LET values_in_dicts   == DOMAIN values_dict1 \cup DOMAIN values_dict2
        uniq_values_final == uniq_mask \cup values_in_dicts
        found == null_value_loop(uniq_values_final, values_dict1, values_dict2,
                                 [none |-> TRUE, v |-> 0])
        null_value == IF ~found.none THEN found.v
                      ELSE IF 0 \notin values_in_dicts THEN 0
                      ELSE (CHOOSE v \in uniq_values_final :
                               \A u \in uniq_values_final : u <= v) + 1
        entry(value) ==
            IF value \in DOMAIN values_dict1
            THEN [label   |-> IF values_dict1[value].is_null THEN ""
                              ELSE values_dict1[value].label,
                  is_null |-> values_dict1[value].is_null]
            ELSE IF value \in DOMAIN values_dict2
            THEN [label   |-> IF values_dict2[value].is_null THEN ""
                              ELSE values_dict2[value].label,
                  is_null |-> values_dict2[value].is_null]
            ELSE [label |-> "", is_null |-> FALSE]
    IN  [value \in uniq_values_final \cup {null_value} |->
            IF value = null_value THEN [label |-> "NULL", is_null |-> TRUE]
            ELSE entry(value)]

\* np.unique(final_mask[i,:,:]), i counted from 1.
uniq_values(arr, i) == {arr.pix[p] : p \in {q \in DOMAIN arr.pix : q[3] = i}}

\* Lines 354-445: [raised, band_names, values], raised naming the exception
\* that leaves the handler, "None" if none does.
final_band_values_dict(m1, m2, merged) ==
    LET names   == merged_band_names(m1.band_names, m2.band_names)
        valid1  == valid_bands(m1.band_names)
        valid2  == valid_bands(m2.band_names)
        names1  == IF valid1 THEN m1.band_names ELSE names
        names2  == IF valid2 THEN m2.band_names ELSE names
        dict1   == band_values_dict(m1.metadata, valid1, names)
        dict2   == band_values_dict(m2.metadata, valid2, names)
        look1(k) == Subscript(dict1, names1[k])
        look2(k) == Subscript(dict2, names2[k])
        failed  == {k \in DOMAIN names :
                       look1(k).raised # "None" \/ look2(k).raised # "None"}
        first   == CHOOSE k \in failed : \A j \in failed : k <= j
    IN  IF failed # {}
        THEN [raised |-> IF look1(first).raised # "None"
                         THEN look1(first).raised ELSE look2(first).raised]
        ELSE [raised     |-> "None",
              band_names |-> names,
              values     |-> [b \in Range(names) |->
                                LET k == CHOOSE j \in DOMAIN names :
                                            /\ names[j] = b
                                            /\ \A i \in DOMAIN names :
                                                  names[i] = b => i <= j
                                IN  final_values_dict(uniq_values(merged, k),
                                                      look1(k).value, look2(k).value)]]

\* The keys of a dict filled with names[1], names[2], ... in this order: every
\* name once, in the order of first appearance.
RECURSIVE dict_keys(_)
dict_keys(names) ==
    IF names = <<>> THEN <<>>
    ELSE LET front == dict_keys(SubSeq(names, 1, Len(names) - 1))
             last  == names[Len(names)]
         IN  IF last \in Range(front) THEN front ELSE Append(front, last)

\* Line 451: {band_names[i]: final_mask[i,:,:] for i in range(...)}, as the
\* sequence of its items [name, band]; a name given twice keeps the band
\* given last.
final_mask_dict(names, arr) ==
    LET keys == dict_keys(names)
        last(b) == CHOOSE j \in DOMAIN names :
                      names[j] = b /\ \A i \in DOMAIN names : names[i] = b => i <= j
    IN  [n \in DOMAIN keys |-> [name |-> keys[n], band |-> last(keys[n])]]

\* core/gdal_tools.py, generateTiff as mergeMasks calls it: one band of the
\* file per item of band_dict, described by the item's name, and the metadata.
generateTiff(band_dict, arr, values) ==
    [exists |-> TRUE,
     shape  |-> <<Len(band_dict), arr.shape[2], arr.shape[3]>>,
     dtype  |-> arr.dtype,
     pix    |-> [p \in (0..(arr.shape[2] - 1)) \X (0..(arr.shape[3] - 1))
                          \X (1..Len(band_dict)) |->
                    arr.pix[<<p[1], p[2], band_dict[p[3]].band>>]],
     band_names       |-> [n \in DOMAIN band_dict |-> band_dict[n].name],
     qclassipy_values |-> values]

\* The handler of the Merge button.  Nothing is written before line 447, so an
\* exception raised by the paste or by the symbology leaves no output.
mergeMasks ==
    /\ merge_pc = "ready"
    /\ \E c \in {listsMasksCompatible(list1, list2, mask1, mask2)} :
         LET save_errs == (IF save_ok.mask THEN {} ELSE {"mask_saveerr"})
                            \cup (IF save_ok.list THEN {} ELSE {"list_saveerr"})
         IN  IF ~c.compatible
             THEN /\ merge_pc' = "aborted"
                  /\ ui_err' = c.errs
                  /\ UNCHANGED <<out_mask, out_list>>
             ELSE IF save_errs # {}
             THEN /\ merge_pc' = "aborted"
                  /\ ui_err' = c.errs \cup save_errs
                  /\ UNCHANGED <<out_mask, out_list>>
             ELSE \E fm \in {final_mask(mask1, mask2, c.list1_df, c.list2_df)} :
                    IF fm.raised
                    THEN /\ merge_pc' = "raised"
                         /\ ui_err' = c.errs
                         /\ UNCHANGED <<out_mask, out_list>>
                    ELSE \E sym \in {final_band_values_dict(mask1, mask2, fm.arr)} :
                           IF sym.raised # "None"
                           THEN /\ merge_pc' = "raised"
                                /\ ui_err' = c.errs
                                /\ UNCHANGED <<out_mask, out_list>>
                           ELSE /\ merge_pc' = "written"
                                /\ ui_err' = c.errs
                                /\ out_mask' = generateTiff(
                                                  final_mask_dict(sym.band_names, fm.arr),
                                                  fm.arr, sym.values)
                                /\ out_list' = [exists |-> TRUE,
                                                rows |-> final_list(c.list1_df, c.list2_df)]
    /\ UNCHANGED <<list1, list2, mask1, mask2, save_ok, overlapVars, imageVars, arrayVars, gpkgVars, gridVars, restVars>>

(***************************************************************************)
(* core/gdal_tools.py: AffineTransformer                                   *)
(***************************************************************************)
\* transform[i] of the code (0-based) is t[i + 1] here.
\* xy(rows, cols): inputs = [1, cols, rows], fwd_matrix = [[t0,t1,t2],[t3,t4,t5]].
AffineTransformer_xy(t, rows, cols) ==
    <<t[1] + t[2] * cols + t[3] * rows,
      t[4] + t[5] * cols + t[6] * rows>>

(***************************************************************************)
(* core/polyimage.py: pixelsToPolys                                        *)
(***************************************************************************)
\* np.linspace(start, stop, num), num >= 2: element j is start + j*step with
\* step = (stop - start)/(num - 1), exact for the integer grids of the model.
linspace(start, stop, num) ==
    [j \in 0..(num - 1) |-> start + (j * (stop - start)) \div (num - 1)]

\* Lines 58-85, taken when transform[2] = 0 and transform[4] = 0.
pixelsToPolys_aligned(t, shape) ==
    LET x_bounds == linspace(t[1], t[1] + t[2] * shape[2], shape[2] + 1)
        y_bounds == linspace(t[4], t[4] + t[6] * shape[1], shape[1] + 1)
        cell(i, j) == << <<x_bounds[j],     y_bounds[i]>>,
                         <<x_bounds[j + 1], y_bounds[i]>>,
                         <<x_bounds[j + 1], y_bounds[i + 1]>>,
                         <<x_bounds[j],     y_bounds[i + 1]>>,
                         <<x_bounds[j],     y_bounds[i]>> >>
    IN  [geom_list |-> [q \in 1..(shape[1] * shape[2]) |->
                          cell((q - 1) \div shape[2], (q - 1) % shape[2])],
         frame     |-> << <<x_bounds[0],        y_bounds[0]>>,
                          <<x_bounds[shape[2]], y_bounds[0]>>,
                          <<x_bounds[shape[2]], y_bounds[shape[1]]>>,
                          <<x_bounds[0],        y_bounds[shape[1]]>>,
                          <<x_bounds[0],        y_bounds[0]>> >>]

\* Lines 93-124.  px_corners[0] holds the row and px_corners[1] the column of
\* grid corner number i*(shape[1]+1)+j; line 97 calls
\* transformer.xy(px_corners[1,:], px_corners[0,:]).
pixelsToPolys_general(t, shape) ==
    LET ncorner == (shape[1] + 1) * (shape[2] + 1)
        px_corners0 == [q \in 0..(ncorner - 1) |-> q \div (shape[2] + 1)]
        px_corners1 == [q \in 0..(ncorner - 1) |-> q % (shape[2] + 1)]
        poly == [q \in 0..(ncorner - 1) |->
                   AffineTransformer_xy(t, px_corners1[q], px_corners0[q])]
        at(i, j) == poly[i * (shape[2] + 1) + j]
        cell(i, j) == <<at(i, j), at(i, j + 1), at(i + 1, j + 1), at(i + 1, j), at(i, j)>>
    IN  [geom_list |-> [q \in 1..(shape[1] * shape[2]) |->
                          cell((q - 1) \div shape[2], (q - 1) % shape[2])],
         frame     |-> <<poly[0], poly[shape[2]], poly[ncorner - 1],
                         poly[shape[1] * (shape[2] + 1)], poly[0]>>]

pixelsToPolys(t, shape) ==
    IF t[3] = 0 /\ t[5] = 0
    THEN pixelsToPolys_aligned(t, shape)
    ELSE pixelsToPolys_general(t, shape)

(***************************************************************************)
(* core/polyimage.py: PolyArray, PolyImage                                 *)
(***************************************************************************)
\* A band is a 2D array: [shape, at], at mapping <<row, col>> to a value.
Array2D(h, w, base) ==
    [shape |-> <<h, w>>,
     at    |-> [p \in (0..(h - 1)) \X (0..(w - 1)) |-> base + p[1] * w + p[2]]]

\* PolyArray.__init__ on a dict of 2D numeric arrays of one shape.
PolyArray_init(band_arrays, band_order, geometries, crs) ==
    LET first_shape == band_arrays[band_order[1]].shape
    IN  IF \E b \in DOMAIN band_arrays : band_arrays[b].shape # first_shape
        THEN [raised |-> "ValueError"]
        ELSE IF Len(geometries) # first_shape[1] * first_shape[2]
        THEN [raised |-> "ValueError"]
        ELSE [raised |-> "None",
              image  |-> [bands      |-> band_arrays,
                          band_names |-> band_order,
                          height     |-> first_shape[1],
                          width      |-> first_shape[2],
                          geometries |-> geometries,
                          crs        |-> crs]]

\* PolyImage.__init__ on a dict of bands of one shape and one dtype.
PolyImage_init(band_arrays, band_order, transform, crs, dtype) ==
    LET shape == band_arrays[band_order[1]].shape
        polys == pixelsToPolys(transform, shape)
        base  == PolyArray_init(band_arrays, band_order, polys.geom_list, crs)
    IN  IF base.raised # "None" THEN base
        ELSE [raised |-> "None",
              image  |-> [bands      |-> base.image.bands,
                          band_names |-> base.image.band_names,
                          height     |-> base.image.height,
                          width      |-> base.image.width,
                          geometries |-> base.image.geometries,
                          crs        |-> crs,
                          transform  |-> transform,
                          dtype      |-> dtype,
                          frame      |-> polys.frame]]

\* The indices slice(start, stop, step) selects on an axis of length dim, in
\* order (0 <= start, step >= 1).
RECURSIVE SliceSeq(_, _, _, _)
SliceSeq(start, stop, step, dim) ==
    IF start >= stop \/ start >= dim THEN <<>>
    ELSE <<start>> \o SliceSeq(start + step, stop, step, dim)

\* arr[y_slice, x_slice]
Crop(arr, ys, xs) ==
    [arr EXCEPT
       !.shape = <<Len(ys), Len(xs)>>,
       !.at    = [p \in (0..(Len(ys) - 1)) \X (0..(Len(xs) - 1)) |->
                    arr.at[<<ys[p[1] + 1], xs[p[2] + 1]>>]]]

\* PolyImage._create_new_instance, lines 612-641.  Line 619 builds the
\* PolyArray part; line 625 then reads top_left_poly, a name bound neither in
\* the method nor in the module, so the call ends there with NameError.
PolyImage_create_new_instance(self, band_arrays, band_order, geometries, crs) ==
    LET base == PolyArray_init(band_arrays, band_order, geometries, crs)
    IN  IF base.raised # "None" THEN base
        ELSE [raised |-> "NameError"]

\* PolyArray._create_new_instance, lines 215-219: self.__class__(...).
PolyArray_create_new_instance(self, band_arrays, band_order, geometries, crs) ==
    PolyArray_init(band_arrays, band_order, geometries, crs)

\* A PolyImage is the collection that carries a transform.
IsPolyImage(self) == "transform" \in DOMAIN self

\* self._create_new_instance(...): the method of the receiver's class.
create_new_instance(self, band_arrays, band_order, geometries, crs) ==
    IF IsPolyImage(self)
    THEN PolyImage_create_new_instance(self, band_arrays, band_order, geometries, crs)
    ELSE PolyArray_create_new_instance(self, band_arrays, band_order, geometries, crs)

\* PolyArray.__getitem__, lines 231-265.  band_key is ":" or one band name;
\* y_slice and x_slice are slices [start, stop, step].
PolyArray_getitem(self, band_key, y_slice, x_slice) ==
    LET band_names == IF band_key = ":" THEN self.band_names ELSE <<band_key>>
        ys == SliceSeq(y_slice.start, y_slice.stop, y_slice.step, self.height)
        xs == SliceSeq(x_slice.start, x_slice.stop, x_slice.step, self.width)
        new_band_arrays == [b \in Range(band_names) |-> Crop(self.bands[b], ys, xs)]
        flat_indices == [q \in 1..(Len(ys) * Len(xs)) |->
                           ys[((q - 1) \div Len(xs)) + 1] * self.width
                             + xs[((q - 1) % Len(xs)) + 1]]
        new_geometries == [q \in DOMAIN flat_indices |->
                             self.geometries[flat_indices[q] + 1]]
    IN  IF ~(Range(band_names) \subseteq Range(self.band_names))
        THEN [raised |-> "KeyError"]
        ELSE create_new_instance(self, new_band_arrays, band_names,
                                 new_geometries, self.crs)

\* PolyImage.__getitem__, lines 651-666.
PolyImage_getitem(self, band_key, y_slice, x_slice) ==
    IF y_slice.step # 1 \/ x_slice.step # 1
    THEN [raised |-> "IndexError"]
    ELSE PolyArray_getitem(self, band_key, y_slice, x_slice)

\* poly_img = PolyImage(bands, transform, crs): two uint8 bands "a" and "b"
\* whose cells all differ.
NewPolyImage ==
    /\ img_pc = "new"
    /\ LET bands == [b \in {"a", "b"} |->
                       Array2D(img_args.shape[1], img_args.shape[2],
                               IF b = "a" THEN 1 ELSE 101)]
           r == PolyImage_init(bands, <<"a", "b">>, img_args.transform, "crs", "uint8")
       IN  /\ r.raised = "None"
           /\ poly_img' = r.image
    /\ img_pc' = "built"
    /\ UNCHANGED <<img_args, sel_key, sel, overlapVars, mergeVars, arrayVars, gpkgVars, gridVars, restVars>>

\* poly_img[band_key, y_slice, x_slice]
GetItem ==
    /\ img_pc = "built"
    /\ \E band_key \in {":", "a"},
          y0 \in 0..(poly_img.height - 1), y1 \in 1..poly_img.height,
          x0 \in 0..(poly_img.width - 1),  x1 \in 1..poly_img.width,
          step \in {1, 2} :
          /\ y0 < y1 /\ x0 < x1
          /\ sel_key' = [band_key |-> band_key,
                         y_slice  |-> [start |-> y0, stop |-> y1, step |-> step],
                         x_slice  |-> [start |-> x0, stop |-> x1, step |-> 1]]
          /\ sel' = PolyImage_getitem(poly_img, sel_key'.band_key,
                                      sel_key'.y_slice, sel_key'.x_slice)
    /\ img_pc' = "selected"
    /\ UNCHANGED <<img_args, poly_img, overlapVars, mergeVars, arrayVars, gpkgVars, gridVars, restVars>>

(***************************************************************************)
(* core/polyimage.py: PolyArray.__setitem__, add_band; PolyImage.add_band  *)
(***************************************************************************)
\* Python's None where an array, a dtype or a returned object is expected.
NoneValue == [none |-> TRUE]

\* A 2D ndarray with its dtype; cell <<row, col>> holds base + row*w + col.
NDArray(h, w, dtype, base) ==
    [ndim |-> 2, shape |-> <<h, w>>, dtype |-> dtype,
     at   |-> [p \in (0..(h - 1)) \X (0..(w - 1)) |-> base + p[1] * w + p[2]]]

\* np.zeros((h, w), dtype=dtype)
zeros(h, w, dtype) ==
    [ndim |-> 2, shape |-> <<h, w>>, dtype |-> dtype,
     at   |-> [p \in (0..(h - 1)) \X (0..(w - 1)) |-> 0]]

\* The value a cell of the given dtype keeps of the integer v.
CastTo(v, dtype) == IF dtype = "float64" THEN v ELSE Cast(v, dtype)

\* arr.astype(dtype): a new array of that dtype.
astype(arr, dtype) ==
    [arr EXCEPT !.dtype = dtype,
                !.at    = [p \in DOMAIN arr.at |-> CastTo(arr.at[p], dtype)]]

\* band_arrays[i, :, :] of a 3D array [ndim, shape, dtype, planes].
Plane(band_arrays, i) ==
    [ndim |-> 2, shape |-> <<band_arrays.shape[2], band_arrays.shape[3]>>,
     dtype |-> band_arrays.dtype, at |-> band_arrays.planes[i + 1]]

\* The indices an index of __setitem__ addresses on an axis of length dim.
\* An index is [int, start, stop, step]; the integer i is [TRUE, i, i+1, 1].
AxisIndex(idx, dim) == SliceSeq(idx.start, idx.stop, idx.step, dim)

\* ndarray[y_slice, x_slice] = value, lines 286.  value is a scalar
\* [ndim |-> 0, v] or a 2D array; numpy broadcasts it to the addressed block
\* (an integer index removes its axis from the block) and casts it to the
\* array's dtype.
ndarray_setitem(arr, y_slice, x_slice, value) ==
    LET ys == AxisIndex(y_slice, arr.shape[1])
        xs == AxisIndex(x_slice, arr.shape[2])
        out_of_range == \/ y_slice.int /\ y_slice.start >= arr.shape[1]
                        \/ x_slice.int /\ x_slice.start >= arr.shape[2]
        \* the value's shape against the block's: (Ly, Lx), (L,) or ()
        fits ==
            IF ~y_slice.int /\ ~x_slice.int
            THEN /\ value.shape[1] \in {1, Len(ys)}
                 /\ value.shape[2] \in {1, Len(xs)}
            ELSE IF y_slice.int /\ x_slice.int
            THEN value.shape = <<1, 1>>
            ELSE /\ value.shape[1] = 1
                 /\ value.shape[2] \in {1, IF y_slice.int THEN Len(xs) ELSE Len(ys)}
        from(r, c) ==
            IF value.ndim = 0 THEN value.v
            ELSE IF ~y_slice.int /\ ~x_slice.int
            THEN value.at[<<IF value.shape[1] = 1 THEN 0 ELSE r,
                            IF value.shape[2] = 1 THEN 0 ELSE c>>]
            ELSE value.at[<<0, IF value.shape[2] = 1 THEN 0
                               ELSE IF y_slice.int THEN c ELSE r>>]
        pos(s, i) == CHOOSE k \in DOMAIN s : s[k] = i
    IN  IF out_of_range THEN [raised |-> "IndexError"]
        ELSE IF value.ndim = 2 /\ ~fits
        THEN [raised |-> "ValueError"]
        ELSE [raised |-> "None",
              arr |-> [arr EXCEPT !.at =
                         [p \in DOMAIN arr.at |->
                            IF p[1] \in Range(ys) /\ p[2] \in Range(xs)
                            THEN CastTo(from(pos(ys, p[1]) - 1, pos(xs, p[2]) - 1),
                                        arr.dtype)
                            ELSE arr.at[p]]]]

\* __setitem__ with every band written instead of the named one.
PolyArray_setitem_allBands(self, band_key, y_slice, x_slice, value) ==
    IF band_key.kind # "str" THEN [raised |-> "KeyError", self |-> self]
    ELSE IF band_key.name \notin Range(self.band_names)
    THEN [raised |-> "KeyError", self |-> self]
    ELSE LET r == [b \in DOMAIN self.bands |->
                     ndarray_setitem(self.bands[b], y_slice, x_slice, value)]
         IN  IF r[band_key.name].raised # "None"
             THEN [raised |-> r[band_key.name].raised, self |-> self]
             ELSE [raised |-> "None",
                   self   |-> [self EXCEPT !.bands =
                                 [b \in DOMAIN self.bands |->
                                    IF r[b].raised = "None" THEN r[b].arr
                                    ELSE self.bands[b]]]]

\* PolyArray.__setitem__, lines 267-286.  band_key is [kind, ...]: "str" with
\* a name, "list" with names, or "slice".
PolyArray_setitem(self, band_key, y_slice, x_slice, value) ==
    IF band_key.kind # "str" THEN [raised |-> "KeyError", self |-> self]
    ELSE IF band_key.name \notin Range(self.band_names)
    THEN [raised |-> "KeyError", self |-> self]
    ELSE LET r == ndarray_setitem(self.bands[band_key.name], y_slice, x_slice, value)
         IN  IF r.raised # "None" THEN [raised |-> r.raised, self |-> self]
             ELSE [raised |-> "None",
                   self   |-> [self EXCEPT !.bands[band_key.name] = r.arr]]

\* The position of name n in the sequence s.
IndexOf(s, n) == CHOOSE k \in DOMAIN s : s[k] = n

\* PolyArray.add_band, lines 294-360.  bands is [kind |-> "str", name],
\* [kind |-> "list", names] or [kind |-> "dict", names, arrays] (a dict with
\* its keys in order).  The outcome is [raised, self, ret]: the receiver after
\* the call and the object returned.
PolyArray_add_band(self, bands, band_arrays, dtype, replace, inplace) ==
    LET dtype1 == IF dtype = "None" /\ band_arrays # NoneValue THEN band_arrays.dtype
                  ELSE IF dtype = "None" THEN "float64"
                  ELSE dtype
        band_names == IF bands.kind = "str" THEN <<bands.name>> ELSE bands.names
        \* lines 327 and 336
        bad_array ==
            /\ band_arrays # NoneValue
            /\ \/ bands.kind = "str"
                    /\ (band_arrays.ndim # 2
                        \/ band_arrays.shape # <<self.height, self.width>>)
               \/ bands.kind = "list"
                    /\ (band_arrays.ndim # 3
                        \/ band_arrays.shape
                             # <<Len(band_names), self.height, self.width>>)
        band_dict ==
            IF bands.kind = "dict" THEN bands.arrays
            ELSE [n \in Range(band_names) |->
                    IF band_arrays = NoneValue
                    THEN zeros(self.height, self.width, dtype1)
                    ELSE IF bands.kind = "str" THEN astype(band_arrays, dtype1)
                    ELSE astype(Plane(band_arrays, IndexOf(band_names, n) - 1), dtype1)]
        \* {**self.bands, **bands}: the old keys keep their place
        IsNew(n) == n \notin Range(self.band_names)
        new_names == self.band_names \o SelectSeq(band_names, IsNew)
        new_bands == [n \in Range(new_names) |->
                        IF n \in Range(band_names) THEN band_dict[n] ELSE self.bands[n]]
        bands_isin == {n \in Range(band_names) : n \in Range(self.band_names)}
    IN  IF bad_array
        THEN [raised |-> "ValueError", self |-> self, ret |-> NoneValue]
        ELSE IF ~replace /\ bands_isin # {}
        THEN [raised |-> "ValueError", self |-> self, ret |-> NoneValue]
        ELSE IF ~replace
        \* lines 356 and 360 read new_bands, which only line 348 binds
        THEN [raised |-> "UnboundLocalError", self |-> self, ret |-> NoneValue]
        ELSE IF inplace
        THEN [raised |-> "None",
              self   |-> [self EXCEPT !.bands = new_bands, !.band_names = new_names],
              ret    |-> NoneValue]
        ELSE LET r == create_new_instance(self, new_bands, new_names,
                                          self.geometries, self.crs)
             IN  [raised |-> r.raised, self |-> self,
                  ret    |-> IF r.raised = "None" THEN r.image ELSE NoneValue]

\* PolyImage.add_band, lines 643-649.
PolyImage_add_band(self, bands, band_arrays, replace, inplace) ==
    PolyArray_add_band(self, bands, band_arrays, self.dtype, replace, inplace)

(***************************************************************************)
(* Calls on a collection: select, assign, add_band                         *)
(***************************************************************************)
\* collection[band_key, y_slice, x_slice]; the caller goes on with the
\* selection when one is returned.
getitem(self, band_key, y_slice, x_slice) ==
    IF IsPolyImage(self) THEN PolyImage_getitem(self, band_key, y_slice, x_slice)
    ELSE PolyArray_getitem(self, band_key, y_slice, x_slice)

Slice(start, stop, step) == [start |-> start, stop |-> stop, step |-> step]

Select ==
    /\ pa_calls < MaxCalls
    /\ \E band_key \in {":", "a", "c"},
          y_slice \in {Slice(0, pa.height, 1), Slice(0, 1, 1),
                       Slice(1, pa.height, 1), Slice(0, pa.height, 2)},
          x_slice \in {Slice(0, pa.width, 1), Slice(1, pa.width, 1)} :
          \E r \in {getitem(pa, band_key, y_slice, x_slice)} :
             /\ pa_call' = [op |-> "select", band_key |-> band_key,
                            y_slice |-> y_slice, x_slice |-> x_slice,
                            raised |-> r.raised, before |-> pa, after |-> pa,
                            ret |-> IF r.raised = "None" THEN r.image ELSE NoneValue]
             /\ pa' = IF r.raised = "None" THEN r.image ELSE pa
    /\ pa_calls' = pa_calls + 1
    /\ UNCHANGED <<overlapVars, mergeVars, imageVars, gpkgVars, gridVars, restVars>>

\* The indices of an assignment: integers (one past the end included) and
\* slices of step 1.
IntIdx(i) == [int |-> TRUE, start |-> i, stop |-> i + 1, step |-> 1]
Sl(start, stop) == [int |-> FALSE, start |-> start, stop |-> stop, step |-> 1]

BandKeys ==
    {[kind |-> "str", name |-> n] : n \in {"a", "b", "c"}}
      \cup {[kind |-> "list", names |-> <<"a", "b">>], [kind |-> "slice"]}

\* collection[band_key, y_slice, x_slice] = value
Assign ==
    /\ pa_calls < MaxCalls
    /\ \E band_key \in BandKeys,
          y_slice \in {IntIdx(0), IntIdx(pa.height), Sl(0, pa.height), Sl(1, pa.height)},
          x_slice \in {IntIdx(0), Sl(0, pa.width), Sl(0, 1)},
          value \in {[ndim |-> 0, v |-> 9], NDArray(1, 2, "uint8", 50)} :
          \E r \in {PolyArray_setitem(pa, band_key, y_slice, x_slice, value)} :
             /\ pa_call' = [op |-> "assign", band_key |-> band_key,
                            y_slice |-> y_slice, x_slice |-> x_slice,
                            value |-> value, raised |-> r.raised,
                            before |-> pa, after |-> r.self, ret |-> NoneValue]
             /\ pa' = r.self
    /\ pa_calls' = pa_calls + 1
    /\ UNCHANGED <<overlapVars, mergeVars, imageVars, gpkgVars, gridVars, restVars>>

\* The arrays a caller hands to add_band for a collection of shape (h, w):
\* of that shape and dtype uint8, of that shape and dtype uint16, or one row
\* taller.
NewArrays(h, w) ==
    {NDArray(h, w, "uint8", 201), NDArray(h, w, "uint16", 201),
     NDArray(h + 1, w, "uint8", 201)}

Stack(a1, a2) ==
    [ndim |-> 3, shape |-> <<2>> \o a1.shape, dtype |-> a1.dtype,
     planes |-> <<a1.at, a2.at>>]

AddBandArgs(h, w) ==
    {[bands |-> [kind |-> "str", name |-> n], band_arrays |-> arr] :
        n \in {"b", "c"}, arr \in {NoneValue} \cup NewArrays(h, w)}
      \cup
    {[bands |-> [kind |-> "list", names |-> ns], band_arrays |-> arr] :
        ns \in {<<"b", "c">>, <<"c", "d">>},
        arr \in {NoneValue, Stack(NDArray(h, w, "uint8", 201),
                                  NDArray(h, w, "uint8", 221))}}
      \cup
    {[bands |-> [kind |-> "dict", names |-> <<n>>, arrays |-> [k \in {n} |-> arr]],
      band_arrays |-> NoneValue] :
        n \in {"b", "c"}, arr \in NewArrays(h, w)}

add_band(self, bands, band_arrays, replace, inplace) ==
    IF IsPolyImage(self)
    THEN PolyImage_add_band(self, bands, band_arrays, replace, inplace)
    ELSE PolyArray_add_band(self, bands, band_arrays, "None", replace, inplace)

\* collection.add_band(bands, band_arrays, replace=, inplace=); the caller
\* goes on with the returned collection when one is returned.
AddBand ==
    /\ pa_calls < MaxCalls
    /\ \E args \in AddBandArgs(pa.height, pa.width), replace, inplace \in BOOLEAN :
          \E r \in {add_band(pa, args.bands, args.band_arrays, replace, inplace)} :
             /\ pa_call' = [op |-> "add_band", bands |-> args.bands,
                            band_arrays |-> args.band_arrays,
                            replace |-> replace, inplace |-> inplace,
                            raised |-> r.raised, before |-> pa, after |-> r.self,
                            ret |-> r.ret]
             /\ pa' = IF r.ret # NoneValue THEN r.ret ELSE r.self
    /\ pa_calls' = pa_calls + 1
    /\ UNCHANGED <<overlapVars, mergeVars, imageVars, gpkgVars, gridVars, restVars>>

(***************************************************************************)
(* core/polyimage.py: PolyArray.to_gpkg                                    *)
(***************************************************************************)
\* Two cell polygons share an edge when they have two corners in common; with
\* one corner in common they only touch.
SharesEdge(g1, g2) == Cardinality(Range(g1) \cap Range(g2)) >= 2

\* The polygons of geoms joined to those of part through shared edges.
RECURSIVE Grow(_, _)
Grow(part, geoms) ==
    LET next == part \cup {g \in geoms : \E p \in part : SharesEdge(p, g)}
    IN  IF next = part THEN part ELSE Grow(next, geoms)

\* shapely.unary_union(geoms), lines 479-486: the union as the list of its
\* polygons, each given by the cells it is made of.  Cells joined by an edge
\* merge into one polygon; a union in several pieces is a MultiPolygon, whose
\* polygons the code lists.
unary_union_noSplit(geoms) == {geoms}

unary_union(geoms) == {Grow({g}, geoms) : g \in geoms}

\* The elements of a finite set of sets of polygons as a list.
RECURSIVE AsList(_)
AsList(parts) ==
    IF parts = {} THEN <<>>
    ELSE LET p == CHOOSE x \in parts : TRUE
         IN  <<p>> \o AsList(parts \ {p})

\* np.unique(values): the distinct values, ascending.
RECURSIVE unique(_)
unique(values) ==
    IF values = {} THEN <<>>
    ELSE LET m == CHOOSE v \in values : \A w \in values : v <= w
         IN  <<m>> \o unique(values \ {m})

\* Lines 410-427: null_values is a dict {band: null values}; a scalar entry
\* counts as the list of that one value.
bool_keep_dict(self, df, null_values, dissolve_by, keep_only_dissolve_band) ==
    LET nv == IF dissolve_by # "None" /\ keep_only_dissolve_band
              THEN [k \in DOMAIN null_values \cap {dissolve_by} |-> null_values[k]]
              ELSE null_values
        null_keys == DOMAIN nv \cap Range(self.band_names)
    IN  [q \in DOMAIN df |->
           \A key \in null_keys : df[q].values[key] \notin nv[key]]

\* The keep mask of the list form with any() over the bands replaced by all().
bool_keep_list_all(self, df, null_values) ==
    [q \in DOMAIN df |->
       \A band \in Range(self.band_names) : df[q].values[band] \notin null_values]

\* Lines 429-438: null_values is a scalar or a list.
bool_keep_list(self, df, null_values) ==
    [q \in DOMAIN df |->
       \E band \in Range(self.band_names) : df[q].values[band] \notin null_values]

\* PolyArray.to_gpkg, lines 386-545.  null_values is [dict |-> TRUE, map] or
\* [dict |-> FALSE, values]; dissolve_by is a band name or "None".  The
\* outcome is the feature count returned and the features written: each with
\* its attribute values, its geometry (the cells it is made of) and, when the
\* cells are not dissolved, its ax0 and ax1.
to_gpkg(self, dissolve_by, keep_only_dissolve_band, null_values) ==
    LET df == [q \in 1..(self.height * self.width) |->
                 [values   |-> [b \in Range(self.band_names) |->
                                  self.bands[b].at[<<(q - 1) \div self.width,
                                                     (q - 1) % self.width>>]],
                  geometry |-> self.geometries[q],
                  ax0      |-> (q - 1) \div self.width,
                  ax1      |-> (q - 1) % self.width]]
        bool_keep == IF null_values.dict
                     THEN bool_keep_dict(self, df, null_values.map, dissolve_by,
                                         keep_only_dissolve_band)
                     ELSE bool_keep_list(self, df, null_values.values)
        dissolve == dissolve_by \in Range(self.band_names)
        band_names == IF dissolve /\ keep_only_dissolve_band THEN <<dissolve_by>>
                      ELSE self.band_names
        Keep(q) == bool_keep[q]
        kept == SelectSeq([q \in DOMAIN df |-> q], Keep)
        Attrs(q) == [b \in Range(band_names) |-> df[q].values[b]]
        unique_values == unique({df[kept[k]].values[dissolve_by] : k \in DOMAIN kept})
        \* the first kept row holding the value
        unique_index(v) ==
            kept[CHOOSE k \in DOMAIN kept :
                   /\ df[kept[k]].values[dissolve_by] = v
                   /\ \A j \in 1..(k - 1) : df[kept[j]].values[dissolve_by] # v]
        Dissolved(v) ==
            LET geoms == {df[kept[k]].geometry :
                            k \in {j \in DOMAIN kept : df[kept[j]].values[dissolve_by] = v}}
                parts == AsList(unary_union(geoms))
            IN  [k \in DOMAIN parts |->
                   [attrs |-> Attrs(unique_index(v)), geometry |-> parts[k],
                    cell  |-> <<>>]]
        RECURSIVE Features(_)
        Features(k) ==
            IF k > Len(unique_values) THEN <<>>
            ELSE Dissolved(unique_values[k]) \o Features(k + 1)
        features ==
            IF kept = <<>> THEN <<>>
            ELSE IF dissolve THEN Features(1)
            ELSE [k \in DOMAIN kept |->
                    [attrs |-> Attrs(kept[k]), geometry |-> {df[kept[k]].geometry},
                     cell  |-> <<df[kept[k]].ax0, df[kept[k]].ax1>>]]
    IN  [feature_count |-> Len(features), features |-> features]

\* The null_values of the model: the default [], a scalar, a list, and dicts
\* over one band, both bands, and a name that is no band.
NullValues ==
    {[dict |-> FALSE, values |-> vs] : vs \in {{}, {0}, {0, 1}}}
      \cup
    {[dict |-> TRUE, map |-> m] :
        m \in {[k \in {"a"} |-> {0}], [k \in {"a", "b"} |-> {0}],
               [k \in {"b", "z"} |-> {0, 1}]}}

\* gp_img.to_gpkg(outfile, dissolve_by=, keep_only_dissolve_band=, null_values=)
ToGpkg ==
    /\ gp_pc = "ready"
    /\ gp_pc' = "done"
    /\ \E dissolve_by \in {"None", "a", "b"}, keep_only_dissolve_band \in BOOLEAN,
          null_values \in NullValues :
          /\ gp_args' = [dissolve_by |-> dissolve_by,
                         keep_only_dissolve_band |-> keep_only_dissolve_band,
                         null_values |-> null_values]
          /\ gp_out' = to_gpkg(gp_img, dissolve_by, keep_only_dissolve_band, null_values)
    /\ UNCHANGED <<gp_img, overlapVars, mergeVars, imageVars, arrayVars, gridVars, restVars>>

(***************************************************************************)
(* core/positions.py: gridPositions                                        *)
(***************************************************************************)
\* np.arange(start, stop, step) as the set of its elements; step > 0 counts
\* up to stop (exclusive), step < 0 counts down to stop (exclusive).
arange(start, stop, step) ==
    IF step > 0 THEN {v \in start..(stop - 1) : (v - start) % step = 0}
    ELSE {v \in (stop + 1)..start : (start - v) % (-step) = 0}

\* np.unique(values) of a set of integers, as the sorted array.
RECURSIVE SortedSeq(_)
SortedSeq(values) ==
    IF values = {} THEN <<>>
    ELSE LET m == CHOOSE v \in values : \A w \in values : v <= w
         IN  <<m>> \o SortedSeq(values \ {m})

\* Lines 61-71.  spacing is [kind |-> "int", v], [kind |-> "pair", y, x] or
\* [kind |-> "float", num]: the float num/4 (exact in binary), below 1.
spacing_yx(spacing, image_size_y, image_size_x) ==
    IF spacing.kind = "float"
    THEN <<(spacing.num * image_size_y) \div 4, (spacing.num * image_size_x) \div 4>>
    ELSE IF spacing.kind = "int" THEN <<spacing.v, spacing.v>>
    ELSE <<spacing.y, spacing.x>>

\* start_yx without the test of the given start against the limits.
start_yx_unchecked(ylims, xlims, image_size_y, image_size_x, start) ==
    IF start = NoneValue
    THEN (ylims[1]..(ylims[2] - image_size_y - 1))
            \X (xlims[1]..(xlims[2] - image_size_x - 1))
    ELSE {<<start.y, start.x>>}

\* Lines 75-82: the starting points the call may go on with.  start is
\* NoneValue or [y, x]; without start, np.random.randint(low, high) draws from
\* low..high-1 and raises when that range is empty.
start_yx(ylims, xlims, image_size_y, image_size_x, start) ==
    IF start = NoneValue
    THEN (ylims[1]..(ylims[2] - image_size_y - 1))
            \X (xlims[1]..(xlims[2] - image_size_x - 1))
    ELSE IF /\ start.y >= ylims[1] /\ start.y < ylims[2] - image_size_y
            /\ start.x >= xlims[1] /\ start.x < xlims[2] - image_size_x
    THEN {<<start.y, start.x>>}
    ELSE {}

\* Lines 86-94 without the two positions appended on lines 87 and 89.
positions_noForced(ylims, xlims, image_size_y, image_size_x, sp, st) ==
    LET x_starts == SortedSeq(arange(st[2], xlims[2] - image_size_x, sp[2])
                                \cup arange(st[2], xlims[1], -sp[2]))
        y_starts == SortedSeq(arange(st[1], ylims[2] - image_size_y, sp[1])
                                \cup arange(st[1], ylims[1], -sp[1]))
        n == Len(y_starts) * Len(x_starts)
    IN  [raised |-> "None",
         pos_y  |-> [q \in 1..n |-> y_starts[((q - 1) \div Len(x_starts)) + 1]],
         pos_x  |-> [q \in 1..n |-> x_starts[((q - 1) % Len(x_starts)) + 1]]]

\* Lines 86-94: the positions from the starting point st and the steps sp.
positions(ylims, xlims, image_size_y, image_size_x, sp, st) ==
    LET x_starts == SortedSeq({xlims[1], xlims[2] - image_size_x}
                                \cup arange(st[2], xlims[2] - image_size_x, sp[2])
                                \cup arange(st[2], xlims[1], -sp[2]))
        y_starts == SortedSeq({ylims[1], ylims[2] - image_size_y}
                                \cup arange(st[1], ylims[2] - image_size_y, sp[1])
                                \cup arange(st[1], ylims[1], -sp[1]))
        n == Len(y_starts) * Len(x_starts)
    IN  [raised |-> "None",
         pos_y  |-> [q \in 1..n |-> y_starts[((q - 1) \div Len(x_starts)) + 1]],
         pos_x  |-> [q \in 1..n |-> x_starts[((q - 1) % Len(x_starts)) + 1]]]

\* gridPositions(ylims, xlims, image_size, start, spacing), lines 20-94, as
\* the set of its possible outcomes.  ylims[0] of the code is ylims[1] here.
gridPositions(ylims, xlims, image_size, start, spacing) ==
    LET sp == spacing_yx(spacing, image_size[1], image_size[2])
        starts == start_yx(ylims, xlims, image_size[1], image_size[2], start)
    IN  IF starts = {} THEN {[raised |-> "ValueError"]}
        \* np.arange with step 0
        ELSE IF sp[1] = 0 \/ sp[2] = 0 THEN {[raised |-> "ZeroDivisionError"]}
        ELSE {positions(ylims, xlims, image_size[1], image_size[2], sp, st) :
                st \in starts}

\* One call of gridPositions on the arguments drawn by InitGrid.
CallGridPositions ==
    /\ grid_pc = "ready"
    /\ grid_pc' = "done"
    /\ grid_out' \in gridPositions(grid_args.ylims, grid_args.xlims,
                                   grid_args.image_size, grid_args.start,
                                   grid_args.spacing)
    /\ UNCHANGED <<grid_args, overlapVars, mergeVars, imageVars, arrayVars, gpkgVars, restVars>>

(***************************************************************************)
(* core/gdal_tools.py: the GDAL data types and generateTiff's choice       *)
(***************************************************************************)
\* A GDAL data type GDT_<Kind><bits> is [kind, width], width in bytes:
\* GDT_Byte is ["u", 1], GDT_Int16 ["i", 2], GDT_Float16 ["f", 2].  A numpy
\* dtype is [kind, itemsize] with kind "u", "i", "f" or "b" (bool).
\* A GDAL version 3.minor is the number 300 + minor.
GDT(kind, width) == [kind |-> kind, width |-> width]

\* Lines 30-34.
gdal_uints(gdal_version) ==
    [size \in {1, 2, 4} \cup (IF gdal_version >= 305 THEN {8} ELSE {}) |-> GDT("u", size)]

\* Lines 36-41 and 45-46: from 3.11 on, slot 2 of gdal_ints is GDT_Float16.
gdal_ints(gdal_version) ==
    [size \in {2, 4} \cup (IF gdal_version >= 305 THEN {8} ELSE {})
                     \cup (IF gdal_version >= 307 THEN {1} ELSE {}) |->
        IF size = 2 /\ gdal_version >= 311 THEN GDT("f", 2) ELSE GDT("i", size)]

\* Lines 43-44.
gdal_floats(gdal_version) == [size \in {4, 8} |-> GDT("f", size)]

\* np.searchsorted(a, v): the number of elements of the ascending a below v.
searchsorted(a, v) == Cardinality({n \in DOMAIN a : a[n] < v})

\* Lines 62-91: [raised, gdal_dtype, bands].
generateTiff_dtype(gdal_version, ext, dtypes) ==
    IF ext \notin {".tif", ".tiff"} THEN [raised |-> "ValueError"]
    ELSE IF \E I \in DOMAIN dtypes : dtypes[I] # dtypes[1] THEN [raised |-> "ValueError"]
    ELSE LET dtype == dtypes[1]
         IN  IF dtype.kind \notin {"u", "i", "f"} THEN [raised |-> "RuntimeError"]
             ELSE LET type_dict == IF dtype.kind = "u" THEN gdal_uints(gdal_version)
                                   ELSE IF dtype.kind = "i" THEN gdal_ints(gdal_version)
                                   ELSE gdal_floats(gdal_version)
                      type_sizes == SortedSeq(DOMAIN type_dict)
                      at == IF searchsorted(type_sizes, dtype.itemsize) < Len(type_sizes) - 1
                            THEN searchsorted(type_sizes, dtype.itemsize)
                            ELSE Len(type_sizes) - 1
                  IN  [raised     |-> "None",
                       gdal_dtype |-> type_dict[type_sizes[at + 1]],
                       bands      |-> Len(dtypes)]

CallGenerateTiff ==
    /\ tiff_pc = "ready"
    /\ tiff_out' = generateTiff_dtype(tiff_args.gdal_version, tiff_args.ext, tiff_args.dtypes)
    /\ tiff_pc' = "done"
    /\ UNCHANGED <<tiff_args, overlapVars, mergeVars, imageVars, arrayVars, gpkgVars, gridVars, aliasVars, drawVars>>

(***************************************************************************)
(* core/polyimage.py: the band arrays of PolyArray as objects in memory    *)
(***************************************************************************)
\* A numpy array is a view on a buffer.  mem maps the address of a buffer to
\* its cells <<plane, row, col>> (a 2D buffer has the single plane 0); a view
\* is [base, plane, ys, xs]: its cell <<i, j>> is cell
\* <<plane, ys[i + 1], xs[j + 1]>> of the buffer at address base.
Whole(addr, plane, h, w) ==
    [base |-> addr, plane |-> plane,
     ys |-> [i \in 1..h |-> i - 1], xs |-> [j \in 1..w |-> j - 1]]

\* The values an array shows.
Read(mem, v) ==
    [p \in (0..(Len(v.ys) - 1)) \X (0..(Len(v.xs) - 1)) |->
        mem[v.base][<<v.plane, v.ys[p[1] + 1], v.xs[p[2] + 1]>>]]

\* arr[y_slice, x_slice] with slices (basic indexing): a view on the buffer
\* of arr.
view_getitem(v, y_slice, x_slice) ==
    LET sy == AxisIndex(y_slice, Len(v.ys))
        sx == AxisIndex(x_slice, Len(v.xs))
    IN  [v EXCEPT !.ys = [n \in DOMAIN sy |-> v.ys[sy[n] + 1]],
                  !.xs = [n \in DOMAIN sx |-> v.xs[sx[n] + 1]]]

\* arr[y_slice, x_slice] = value, value a scalar: the buffer of arr is written.
view_setitem(mem, v, y_slice, x_slice, value) ==
    LET w == view_getitem(v, y_slice, x_slice)
    IN  [mem EXCEPT ![v.base] =
           [c \in DOMAIN @ |->
               IF c[1] = v.plane /\ c[2] \in Range(w.ys) /\ c[3] \in Range(w.xs)
               THEN value ELSE @[c]]]

\* PolyArray.__init__ on a dict, lines 188-205: self.bands is the dict given.
PolyArray_init_dict(band_arrays) == [bands |-> band_arrays]

\* PolyArray.__init__ on a 3D array, lines 165-186: band i is
\* band_arrays[i,:,:], named str(i).
PolyArray_init_3d(addr, n, h, w) ==
    [bands |-> [name \in {"0", "1"} |-> Whole(addr, IF name = "0" THEN 0 ELSE 1, h, w)]]

\* PolyArray.__getitem__ with slices, lines 221-260: the new collection is
\* built from {name: self.bands[name][y_slice, x_slice]}.
PolyArray_getitem_views(self, y_slice, x_slice) ==
    PolyArray_init_dict([name \in DOMAIN self.bands |->
                            view_getitem(self.bands[name], y_slice, x_slice)])

\* PolyArray.add_band(name, replace=True, inplace=False), lines 294-360: a
\* zero-filled array is allocated for the new band, the other bands come from
\* {**self.bands, **bands}.  [mem, ret].
PolyArray_add_band_views(mem, self, name, h, w) ==
    LET addr == Len(mem) + 1
        new_bands == [b \in DOMAIN self.bands \cup {name} |->
                         IF b = name THEN Whole(addr, 0, h, w) ELSE self.bands[b]]
    IN  [mem |-> Append(mem, [c \in {0} \X (0..(h - 1)) \X (0..(w - 1)) |-> 0]),
         ret |-> PolyArray_init_dict(new_bands)]

\* PolyArray.__setitem__, line 286: self.bands[band_key][y_slice, x_slice] = value.
PolyArray_setitem_views(mem, self, band_key, y_slice, x_slice, value) ==
    view_setitem(mem, self.bands[band_key], y_slice, x_slice, value)

\* dst = src[:, y_slice, x_slice]
AliasSelect ==
    /\ al_pc = "built"
    /\ \E y_slice \in {Sl(0, ArrH), Sl(1, ArrH)}, x_slice \in {Sl(0, ArrW), Sl(0, 1)} :
          al_dst' = PolyArray_getitem_views(al_src, y_slice, x_slice)
    /\ al_pc' = "derived"
    /\ UNCHANGED <<al_mem, al_caller, al_src, al_last>>
    /\ UNCHANGED <<overlapVars, mergeVars, imageVars, arrayVars, gpkgVars, gridVars, tiffVars, drawVars>>

\* dst = src.add_band(name), name new or the name of a band of src
AliasAddBand ==
    /\ al_pc = "built"
    /\ \E name \in {"c"} \cup DOMAIN al_src.bands :
          \E r \in {PolyArray_add_band_views(al_mem, al_src, name, ArrH, ArrW)} :
             /\ al_mem' = r.mem
             /\ al_dst' = r.ret
    /\ al_pc' = "derived"
    /\ UNCHANGED <<al_caller, al_src, al_last>>
    /\ UNCHANGED <<overlapVars, mergeVars, imageVars, arrayVars, gpkgVars, gridVars, tiffVars, drawVars>>

\* target[name, y_slice, x_slice] = 9, target being src or dst
AliasAssign ==
    /\ al_pc \in {"built", "derived"}
    /\ \E target \in {"src"} \cup (IF al_pc = "derived" THEN {"dst"} ELSE {}) :
          LET coll == IF target = "src" THEN al_src ELSE al_dst
          IN  \E name \in DOMAIN coll.bands,
                 y_slice \in {Sl(0, 1), Sl(0, ArrH)}, x_slice \in {Sl(0, 1), Sl(0, ArrW)} :
                 /\ al_mem' = PolyArray_setitem_views(al_mem, coll, name, y_slice, x_slice, 9)
                 /\ al_last' = [target |-> target, before |-> al_mem]
    /\ al_pc' = "assigned"
    /\ UNCHANGED <<al_caller, al_src, al_dst>>
    /\ UNCHANGED <<overlapVars, mergeVars, imageVars, arrayVars, gpkgVars, gridVars, tiffVars, drawVars>>

(***************************************************************************)
(* gui/draw_mask.py: the Draw-mask tab on a tile of one band               *)
(***************************************************************************)
\* The pixels <<ax0, ax1>> of the tile, and the values a pixel or a text
\* field of the tab takes.
DrawCells == {0} \X {0, 1}

DrawValues == 0..1

\* A raster without the qclassipy_values metadata item and without a colour
\* table: no class is declared.
NoSymbology == [values |-> <<>>, null |-> -1]

\* Lines 506-578 for the one band.  meta.values are the keys of the stored
\* symbology in their order and meta.null the key flagged null; the result is
\* the classes in dropdown order, the null value and the first draw value.
compose_symbology(pix, meta) ==
    LET band_values == {meta.values[k] : k \in DOMAIN meta.values}
        null_value_appeared == meta.null \in band_values
        null_value ==
            IF null_value_appeared THEN meta.null
            ELSE IF 0 \notin band_values THEN 0
            ELSE (CHOOSE v \in band_values : \A w \in band_values : w <= v) + 1
        other_band_values ==
            ({pix[c] : c \in DOMAIN pix} \ band_values)
               \ (IF null_value_appeared THEN {} ELSE {null_value})
        categories ==
            meta.values \o (IF null_value_appeared THEN <<>> ELSE <<null_value>>)
                        \o SortedSeq(other_band_values)
        not_null == SelectSeq(categories, LAMBDA v : v # null_value)
    IN  [categories |-> categories,
         null_value |-> null_value,
         draw_value |-> IF Len(categories) > 1 THEN not_null[1] ELSE categories[1]]

\* Lines 1317-1359.  nosave_proceed, reply and completeness_text are the
\* user's answers to the two dialogs; warned tells whether the unsaved-changes
\* message was shown.
dismantle(img_saved, file_df, nosave_proceed, reply, completeness_text) ==
    IF ~img_saved /\ ~nosave_proceed
    THEN [ret |-> FALSE, warned |-> TRUE, file_df |-> file_df]
    ELSE IF file_df.present /\ ~reply
    THEN [ret |-> FALSE, warned |-> ~img_saved, file_df |-> file_df]
    ELSE [ret     |-> TRUE,
          warned  |-> ~img_saved,
          file_df |-> IF file_df.present
                      THEN [file_df EXCEPT !.priority =
                               IF completeness_text = "Complete"
                               THEN COMPLETED_PRIORITY
                               ELSE COMPLETED_PRIORITY + 1]
                      ELSE file_df]

\* loadImg() and finishLoad(): reset() closes the tile that is loaded, if the
\* user lets it, and loads the tile from the raster; the tile list is then
\* forgotten (loadImg) or read again (finishLoad), whatever reset() did.
DrawReset ==
    /\ dm_pc \in {"just_started", "loaded"}
    /\ \E from_list \in BOOLEAN, nosave_proceed \in BOOLEAN, reply \in BOOLEAN,
          completeness_text \in {"Incomplete", "Complete"} :
          LET d == IF dm_pc = "just_started"
                   THEN [ret |-> TRUE, warned |-> FALSE, file_df |-> dm_file_df]
                   ELSE dismantle(dm_img_saved, dm_file_df, nosave_proceed, reply,
                                  completeness_text)
              s == compose_symbology(dm_raster.pix, dm_raster.meta)
          IN  /\ dm_closing' = IF dm_pc = "just_started" THEN dm_closing
                               ELSE [changed |-> dm_bands # dm_raster.pix,
                                     warned  |-> d.warned,
                                     ret     |-> d.ret]
              /\ dm_file_df' = [d.file_df EXCEPT !.present = from_list]
              /\ IF d.ret
                 THEN /\ dm_bands' = dm_raster.pix
                      /\ dm_categories' = s.categories
                      /\ dm_null_value' = s.null_value
                      /\ dm_draw_value' = s.draw_value
                      /\ dm_img_saved' = TRUE
                      /\ dm_pc' = "loaded"
                 ELSE UNCHANGED <<dm_bands, dm_categories, dm_null_value,
                                  dm_draw_value, dm_img_saved, dm_pc>>
    /\ UNCHANGED dm_raster
    /\ UNCHANGED <<overlapVars, mergeVars, imageVars, arrayVars, gpkgVars, gridVars, tiffVars, aliasVars>>

\* closeEvent(): the tab closes if no tile was ever loaded or dismantle()
\* returns True.
DrawClose ==
    /\ dm_pc \in {"just_started", "loaded"}
    /\ \E nosave_proceed \in BOOLEAN, reply \in BOOLEAN,
          completeness_text \in {"Incomplete", "Complete"} :
          LET d == IF dm_pc = "just_started"
                   THEN [ret |-> TRUE, warned |-> FALSE, file_df |-> dm_file_df]
                   ELSE dismantle(dm_img_saved, dm_file_df, nosave_proceed, reply,
                                  completeness_text)
          IN  /\ dm_closing' = IF dm_pc = "just_started" THEN dm_closing
                               ELSE [changed |-> dm_bands # dm_raster.pix,
                                     warned  |-> d.warned,
                                     ret     |-> d.ret]
              /\ dm_file_df' = d.file_df
              /\ IF d.ret
                 THEN /\ dm_bands' = IF dm_pc = "just_started" THEN dm_bands ELSE <<>>
                      /\ dm_categories' = IF dm_pc = "just_started" THEN dm_categories
                                          ELSE <<>>
                      /\ dm_pc' = "closed"
                 ELSE UNCHANGED <<dm_bands, dm_categories, dm_pc>>
    /\ UNCHANGED <<dm_raster, dm_null_value, dm_draw_value, dm_img_saved>>
    /\ UNCHANGED <<overlapVars, mergeVars, imageVars, arrayVars, gpkgVars, gridVars, tiffVars, aliasVars>>

\* Lines 732-752: the classes the Remove button removes under the checked
\* option, the null value never among them.
rm_values(option, categories, bands, draw_value, null_value) ==
    LET band_values == {categories[k] : k \in DOMAIN categories}
        present_values == {bands[c] : c \in DOMAIN bands}
    IN  (CASE option = "rm_current" -> {draw_value}
           [] option = "rm_others"  -> band_values \ {draw_value}
           [] option = "rm_absent"  -> band_values \ present_values
           [] option = "rm_larger"  -> {v \in band_values : v > draw_value})
        \ {null_value}

\* rmCategory(): the Remove class button.
DrawRmCategory ==
    /\ dm_pc = "loaded"
    /\ \E option \in {"rm_current", "rm_others", "rm_absent", "rm_larger"} :
          LET rm == rm_values(option, dm_categories, dm_bands, dm_draw_value,
                              dm_null_value)
          IN  IF rm = {}
              THEN UNCHANGED <<dm_draw_value, dm_categories, dm_bands>>
              ELSE /\ dm_draw_value' = dm_null_value
                   /\ dm_categories' = SelectSeq(dm_categories, LAMBDA v : v \notin rm)
                   /\ dm_bands' = [c \in DOMAIN dm_bands |->
                                     IF dm_bands[c] \in rm THEN dm_null_value
                                     ELSE dm_bands[c]]
    /\ UNCHANGED <<dm_raster, dm_null_value, dm_img_saved, dm_file_df, dm_closing, dm_pc>>
    /\ UNCHANGED <<overlapVars, mergeVars, imageVars, arrayVars, gpkgVars, gridVars, tiffVars, aliasVars>>

\* drawSelection(): the Selection and Brush tools paint the selected pixels
\* with the draw value, the Erase tool with the null value (line 1048).
DrawSelection ==
    /\ dm_pc = "loaded"
    /\ \E selected \in SUBSET DrawCells, tool \in {"select", "brush", "erase"} :
          LET draw_value == IF tool = "erase" THEN dm_null_value ELSE dm_draw_value
          IN  dm_bands' = [c \in DOMAIN dm_bands |->
                             IF c \in selected THEN draw_value ELSE dm_bands[c]]
    /\ dm_img_saved' = FALSE
    /\ UNCHANGED <<dm_raster, dm_categories, dm_null_value, dm_draw_value, dm_file_df,
                   dm_closing, dm_pc>>
    /\ UNCHANGED <<overlapVars, mergeVars, imageVars, arrayVars, gpkgVars, gridVars, tiffVars, aliasVars>>

\* drawPoly(): band_array is the polygon layer burnt into a raster after the
\* user's edit; the values it brings that are no class yet become classes.
DrawPoly ==
    /\ dm_pc = "loaded"
    /\ \E band_array \in [DrawCells -> DrawValues] :
          LET change_values == {band_array[c] : c \in {e \in DrawCells :
                                                         dm_bands[e] # band_array[e]}}
              new_values == change_values \ {dm_categories[k] : k \in DOMAIN dm_categories}
          IN  /\ dm_categories' = dm_categories \o SortedSeq(new_values)
              /\ dm_bands' = band_array
    /\ dm_img_saved' = FALSE
    /\ UNCHANGED <<dm_raster, dm_null_value, dm_draw_value, dm_file_df, dm_closing, dm_pc>>
    /\ UNCHANGED <<overlapVars, mergeVars, imageVars, arrayVars, gpkgVars, gridVars, tiffVars, aliasVars>>

\* changeOfValue(change), change being 'null' or 'draw': the user types a new
\* null value or draw value; a value that is no class yet becomes one.
DrawChangeOfValue ==
    /\ dm_pc = "loaded"
    /\ \E change \in {"null", "draw"}, new_value \in DrawValues :
          /\ dm_categories' =
                IF new_value \in {dm_categories[k] : k \in DOMAIN dm_categories}
                THEN dm_categories
                ELSE Append(dm_categories, new_value)
          /\ dm_null_value' = IF change = "null" THEN new_value ELSE dm_null_value
          /\ dm_draw_value' = IF change = "draw" THEN new_value ELSE dm_draw_value
    /\ UNCHANGED <<dm_raster, dm_bands, dm_img_saved, dm_file_df, dm_closing, dm_pc>>
    /\ UNCHANGED <<overlapVars, mergeVars, imageVars, arrayVars, gpkgVars, gridVars, tiffVars, aliasVars>>

\* saveImage(): the tile's values and the symbology go to the raster.
DrawSaveImage ==
    /\ dm_pc = "loaded"
    /\ dm_raster' = [pix  |-> dm_bands,
                     meta |-> [values |-> dm_categories, null |-> dm_null_value]]
    /\ dm_img_saved' = TRUE
    /\ UNCHANGED <<dm_bands, dm_categories, dm_null_value, dm_draw_value, dm_file_df,
                   dm_closing, dm_pc>>
    /\ UNCHANGED <<overlapVars, mergeVars, imageVars, arrayVars, gpkgVars, gridVars, tiffVars, aliasVars>>

(***************************************************************************)
(* Inputs                                                                  *)
(***************************************************************************)
\* Every tile that lies inside mosaic 1, of any height and width.
Rects ==
    {r \in [x : 0..(GridW - 1), y : 0..(GridH - 1), width : 1..GridW, height : 1..GridH] :
        r.x + r.width <= GridW /\ r.y + r.height <= GridH}

Priorities == {COMPLETED_PRIORITY, UNCOMPLETED_PRIORITY}

Row(r, prio, file) ==
    [x |-> r.x, y |-> r.y, width |-> r.width, height |-> r.height,
     priority |-> prio, filename |-> file]

\* A mosaic whose pixels all differ, and differ from those of the other
\* mosaic (base): the origin of every merged pixel can be read off its value.
\* Its bands have no description and its metadata no symbology.
MosaicBands(n, h, w, dtype, base) ==
    [shape |-> <<n, h, w>>, dtype |-> dtype,
     pix   |-> [p \in (0..(h - 1)) \X (0..(w - 1)) \X (1..n) |->
                   base + (p[3] - 1) * h * w + p[1] * w + p[2]],
     band_names |-> [i \in 1..n |-> ""], metadata |-> NoMetadata]

Mosaic(h, w, dtype, base) == MosaicBands(1, h, w, dtype, base)

\* The same mosaic with a band description and a metadata dictionary.
Described(m, names, metadata) ==
    [m EXCEPT !.band_names = names, !.metadata = metadata]

\* Symbologies of one band, as the tabs write them (one null value labelled
\* 'NULL'): empty; one class; null value 0 and two classes; null value 1 and
\* one class.
ValuesDicts ==
    {<<>>,
     [v \in {1} |-> [label |-> "water", is_null |-> FALSE]],
     [v \in {0, 1, 101} |-> IF v = 0 THEN [label |-> "NULL", is_null |-> TRUE]
                            ELSE IF v = 1 THEN [label |-> "sea", is_null |-> FALSE]
                            ELSE [label |-> "forest", is_null |-> FALSE]],
     [v \in {1, 2} |-> IF v = 1 THEN [label |-> "NULL", is_null |-> TRUE]
                       ELSE [label |-> "lake", is_null |-> FALSE]]}

\* The metadata a mosaic may carry: no 'qclassipy_values' slot, or a slot
\* holding text that is no literal, a list, or a mapping of no, one or two band
\* names to symbologies.
Metadatas ==
    {NoMetadata}
      \cup {[has_values |-> TRUE, literal |-> [kind |-> k]] : k \in {"unparsable", "list"}}
      \cup {[has_values |-> TRUE, literal |-> [kind |-> "dict", bands |-> <<>>]]}
      \cup {[has_values |-> TRUE,
             literal |-> [kind |-> "dict", bands |-> [b \in {"a"} |-> d]]] :
                d \in ValuesDicts}
      \cup {[has_values |-> TRUE,
             literal |-> [kind |-> "dict",
                          bands |-> [b \in {"a", "b"} |-> IF b = "a" THEN da ELSE db]]] :
                da \in ValuesDicts,
                db \in {d \in ValuesDicts : DOMAIN d = {} \/ 0 \in DOMAIN d}}

\* The band descriptions of a mosaic of two bands: distinct names, no names, one name,
\* the same name twice, a name that reads like a band number.
BandNames ==
    {<<"a", "b">>, <<"", "">>, <<"a", "">>, <<"", "a">>, <<"a", "a">>, <<"2", "">>}

\* The tile geometries manifest 2 may have, given those of manifest 1: the
\* same rows in any order, or row 1 one cell wider or one cell taller.
Geometries2(g1) ==
    {[k \in TileIdx |-> g1[perm[k]]] : perm \in Permutations(TileIdx)}
      \cup {[g1 EXCEPT ![1] = r] :
               r \in {q \in Rects : /\ q.x = g1[1].x /\ q.y = g1[1].y
                                    /\ \/ q.width = g1[1].width + 1 /\ q.height = g1[1].height
                                       \/ q.width = g1[1].width /\ q.height = g1[1].height + 1}}

IdleOverlaps ==
    /\ ov_args = <<>>
    /\ overlap_list = ValueError
    /\ ov_pc = "idle"

IdleImage ==
    /\ img_args = <<>>
    /\ poly_img = <<>>
    /\ sel_key = <<>>
    /\ sel = [raised |-> "None"]
    /\ img_pc = "idle"

IdleTiff ==
    /\ tiff_args = <<>>
    /\ tiff_out = [raised |-> "None"]
    /\ tiff_pc = "idle"

IdleAlias ==
    /\ al_mem = <<>>
    /\ al_caller = {}
    /\ al_src = [bands |-> <<>>]
    /\ al_dst = [bands |-> <<>>]
    /\ al_last = [target |-> "none"]
    /\ al_pc = "idle"

IdleDraw ==
    /\ dm_raster = [pix |-> <<>>, meta |-> NoSymbology]
    /\ dm_bands = <<>>
    /\ dm_categories = <<>>
    /\ dm_null_value = 0
    /\ dm_draw_value = 0
    /\ dm_img_saved = FALSE
    /\ dm_file_df = [present |-> FALSE, priority |-> UNCOMPLETED_PRIORITY]
    /\ dm_closing = [changed |-> FALSE, warned |-> FALSE, ret |-> FALSE]
    /\ dm_pc = "idle"

IdleRest == IdleTiff /\ IdleAlias /\ IdleDraw

IdleGrid ==
    /\ grid_args = <<>>
    /\ grid_out = [raised |-> "None"]
    /\ grid_pc = "idle"

IdleGpkg ==
    /\ gp_img = <<>>
    /\ gp_args = <<>>
    /\ gp_out = [feature_count |-> 0, features |-> <<>>]
    /\ gp_pc = "idle"

IdleArray ==
    /\ pa = <<>>
    /\ pa_call = [op |-> "idle"]
    /\ pa_calls = 0

IdleMerge ==
    /\ list1 = <<>> /\ list2 = <<>>
    /\ mask1 = NoFile /\ mask2 = NoFile
    /\ save_ok = [mask |-> TRUE, list |-> TRUE]
    /\ ui_err = {}
    /\ out_mask = NoFile /\ out_list = NoFile
    /\ merge_pc = "idle"

MergeStart ==
    /\ ui_err = {}
    /\ out_mask = NoFile /\ out_list = NoFile
    /\ merge_pc = "ready"

\* Two manifests over the same mosaic geometry and two mosaics of equal shape
\* and dtype; valid output paths.
Init ==
    /\ \E g1 \in [TileIdx -> Rects], p1, p2 \in [TileIdx -> Priorities] :
          /\ list1 = [k \in TileIdx |-> Row(g1[k], p1[k], "mask1.tif")]
          /\ \E g2 \in Geometries2(g1) :
                list2 = [k \in TileIdx |-> Row(g2[k], p2[k], "mask2.tif")]
    /\ mask1 = Mosaic(GridH, GridW, "uint8", 1)
    /\ mask2 = Mosaic(GridH, GridW, "uint8", 101)
    /\ save_ok = [mask |-> TRUE, list |-> TRUE]
    /\ MergeStart
    /\ IdleOverlaps
    /\ IdleImage
    /\ IdleArray
    /\ IdleGpkg
    /\ IdleGrid
    /\ IdleRest

\* Identical manifests up to the priorities; mosaic 2 of any shape and dtype,
\* output paths valid or not.
InitGuards ==
    /\ \E g1 \in [TileIdx -> Rects], p1, p2 \in [TileIdx -> Priorities] :
          /\ list1 = [k \in TileIdx |-> Row(g1[k], p1[k], "mask1.tif")]
          /\ list2 = [k \in TileIdx |-> Row(g1[k], p2[k], "mask2.tif")]
    /\ mask1 = Mosaic(GridH, GridW, "uint8", 1)
    /\ \E h2 \in {GridH - 1, GridH, GridH + 1}, d2 \in {"uint8", "uint16"} :
          mask2 = Mosaic(h2, GridW, d2, IF d2 = "uint8" THEN 101 ELSE 1001)
    /\ save_ok \in [mask : BOOLEAN, list : BOOLEAN]
    /\ MergeStart
    /\ IdleOverlaps
    /\ IdleImage
    /\ IdleArray
    /\ IdleGpkg
    /\ IdleGrid
    /\ IdleRest

\* Two manifests with the same two tiles, side by side: tile 1 completed or
\* not in manifest 1, tile 2 completed or not in manifest 2; two mosaics of
\* equal shape and dtype with any band descriptions and any metadata; valid
\* output paths.
InitSymbology ==
    /\ \E d1, d2 \in BOOLEAN :
          LET g == [k \in TileIdx |-> [x |-> k - 1, y |-> 0, width |-> 1, height |-> GridH]]
              p1 == [k \in TileIdx |-> IF d1 /\ k = 1 THEN COMPLETED_PRIORITY
                                       ELSE UNCOMPLETED_PRIORITY]
              p2 == [k \in TileIdx |-> IF d2 /\ k = 2 THEN COMPLETED_PRIORITY
                                       ELSE UNCOMPLETED_PRIORITY]
          IN  /\ list1 = [k \in TileIdx |-> Row(g[k], p1[k], "mask1.tif")]
              /\ list2 = [k \in TileIdx |-> Row(g[k], p2[k], "mask2.tif")]
    /\ \E n1, n2 \in BandNames, md1, md2 \in Metadatas :
          /\ mask1 = Described(MosaicBands(Len(n1), GridH, GridW, "uint8", 1), n1, md1)
          /\ mask2 = Described(MosaicBands(Len(n2), GridH, GridW, "uint8", 101), n2, md2)
    /\ save_ok = [mask |-> TRUE, list |-> TRUE]
    /\ MergeStart
    /\ IdleOverlaps
    /\ IdleImage
    /\ IdleArray
    /\ IdleGpkg
    /\ IdleGrid
    /\ IdleRest

\* The GDAL builds the module tells apart: before 3.5, 3.5, 3.7, 3.11, later.
GdalVersions == {304, 305, 307, 311, 312}

\* numpy's bool, unsigned, signed and floating dtypes.
DTypes ==
    {[kind |-> "b", itemsize |-> 1]}
      \cup [kind : {"u", "i"}, itemsize : {1, 2, 4, 8}]
      \cup [kind : {"f"}, itemsize : {2, 4, 8}]

\* One band, or two bands of equal or different dtypes.
InitTiff ==
    /\ tiff_args \in [gdal_version : GdalVersions,
                     ext          : {".tif", ".tiff", ".png"},
                     dtypes       : {<<d>> : d \in DTypes}
                                      \cup {<<d, d>> : d \in DTypes}
                                      \cup {<<d, [kind |-> "u", itemsize |-> 1]>> :
                                                d \in DTypes}]
    /\ tiff_out = [raised |-> "None"]
    /\ tiff_pc = "ready"
    /\ IdleMerge
    /\ IdleOverlaps
    /\ IdleImage
    /\ IdleArray
    /\ IdleGpkg
    /\ IdleGrid
    /\ IdleAlias
    /\ IdleDraw

\* The tab has just been opened (line 92) on a raster that holds any values
\* and no symbology.
InitDraw ==
    /\ dm_raster \in [pix : [DrawCells -> DrawValues], meta : {NoSymbology}]
    /\ dm_bands = <<>>
    /\ dm_categories = <<>>
    /\ dm_null_value = 0
    /\ dm_draw_value = 0
    /\ dm_img_saved = FALSE
    /\ dm_file_df = [present |-> FALSE, priority |-> UNCOMPLETED_PRIORITY]
    /\ dm_closing = [changed |-> FALSE, warned |-> FALSE, ret |-> FALSE]
    /\ dm_pc = "just_started"
    /\ IdleMerge
    /\ IdleOverlaps
    /\ IdleImage
    /\ IdleArray
    /\ IdleGpkg
    /\ IdleGrid
    /\ IdleTiff
    /\ IdleAlias

\* The caller holds two 2D arrays, or one 3D array of two bands, with values
\* that all differ, and builds a PolyArray from them.
InitAlias ==
    /\ \/ /\ al_mem = <<[c \in {0} \X (0..(ArrH - 1)) \X (0..(ArrW - 1)) |->
                           1 + c[2] * ArrW + c[3]],
                        [c \in {0} \X (0..(ArrH - 1)) \X (0..(ArrW - 1)) |->
                           101 + c[2] * ArrW + c[3]]>>
          /\ al_caller = {Whole(1, 0, ArrH, ArrW), Whole(2, 0, ArrH, ArrW)}
          /\ al_src = PolyArray_init_dict([name \in {"a", "b"} |->
                         Whole(IF name = "a" THEN 1 ELSE 2, 0, ArrH, ArrW)])
       \/ /\ al_mem = <<[c \in {0, 1} \X (0..(ArrH - 1)) \X (0..(ArrW - 1)) |->
                           1 + 100 * c[1] + c[2] * ArrW + c[3]]>>
          /\ al_caller = {Whole(1, 0, ArrH, ArrW), Whole(1, 1, ArrH, ArrW)}
          /\ al_src = PolyArray_init_3d(1, 2, ArrH, ArrW)
    /\ al_dst = [bands |-> <<>>]
    /\ al_last = [target |-> "none"]
    /\ al_pc = "built"
    /\ IdleMerge
    /\ IdleOverlaps
    /\ IdleImage
    /\ IdleArray
    /\ IdleGpkg
    /\ IdleGrid
    /\ IdleTiff
    /\ IdleDraw

InitOverlaps ==
    /\ ov_args \in [x_min  : [TileIdx -> 0..MaxCoord],
                    y_min  : [TileIdx -> 0..MaxCoord],
                    height : [TileIdx -> 1..MaxSize],
                    width  : [TileIdx -> 1..MaxSize]]
    /\ overlap_list = ValueError
    /\ ov_pc = "ready"
    /\ IdleMerge
    /\ IdleImage
    /\ IdleArray
    /\ IdleGpkg
    /\ IdleGrid
    /\ IdleRest

\* The geotransforms of the model: integer coefficients, pixel width and
\* height not 0, invertible (gdal.InvGeoTransform succeeds).
Scales == {v \in (-MaxScale)..MaxScale : v # 0}

Transforms ==
    {t \in {0, 7} \X (1..MaxScale) \X ((-MaxRot)..MaxRot)
          \X {0, 7} \X ((-MaxRot)..MaxRot) \X Scales :
        t[2] * t[6] - t[3] * t[5] # 0}

InitImage ==
    /\ img_args \in [transform : Transforms, shape : (1..MaxRows) \X (1..MaxCols)]
    /\ poly_img = <<>>
    /\ sel_key = <<>>
    /\ sel = [raised |-> "None"]
    /\ img_pc = "new"
    /\ IdleMerge
    /\ IdleOverlaps
    /\ IdleArray
    /\ IdleGpkg
    /\ IdleGrid
    /\ IdleRest

\* The transform of the collections under a sequence of calls: north-up,
\* unit pixels.
ArrayTransform == <<0, 1, 0, 0, 0, -1>>

\* A PolyArray or a PolyImage with the uint8 bands "a" and "b", whose cells
\* all differ.
InitArray ==
    /\ \E cls \in {"PolyArray", "PolyImage"} :
          LET bands == [b \in {"a", "b"} |->
                          NDArray(ArrH, ArrW, "uint8", IF b = "a" THEN 1 ELSE 101)]
              geometries == pixelsToPolys(ArrayTransform, <<ArrH, ArrW>>).geom_list
          IN  pa = IF cls = "PolyImage"
                   THEN PolyImage_init(bands, <<"a", "b">>, ArrayTransform,
                                       "crs", "uint8").image
                   ELSE PolyArray_init(bands, <<"a", "b">>, geometries, "crs").image
    /\ pa_call = [op |-> "init"]
    /\ pa_calls = 0
    /\ IdleMerge
    /\ IdleOverlaps
    /\ IdleImage
    /\ IdleGpkg
    /\ IdleGrid
    /\ IdleRest

\* The transforms of the exported images: unit pixels at the origin, north-up
\* (fast path of pixelsToPolys) or with both rotation coefficients 1.
GpkgTransforms ==
    {t \in Transforms : /\ t[1] = 0 /\ t[4] = 0 /\ t[2] = 1 /\ t[6] = -1
                        /\ t[3] = t[5] /\ t[3] \in {0, 1}}

GpkgCells == (0..(GpkgH - 1)) \X (0..(GpkgW - 1))

\* A PolyImage of GpkgH x GpkgW cells: band "a" holds any 0/1 pattern, band
\* "b" is 0 everywhere, a copy of "a", or holds a different value in every cell.
InitGpkg ==
    /\ \E a \in [GpkgCells -> 0..1], kind \in {"zero", "copy", "distinct"},
          t \in GpkgTransforms :
          LET b == [p \in GpkgCells |->
                      IF kind = "zero" THEN 0
                      ELSE IF kind = "copy" THEN a[p]
                      ELSE p[1] * GpkgW + p[2]]
              bands == [n \in {"a", "b"} |->
                          [ndim |-> 2, shape |-> <<GpkgH, GpkgW>>, dtype |-> "uint8",
                           at |-> IF n = "a" THEN a ELSE b]]
          IN  gp_img = PolyImage_init(bands, <<"a", "b">>, t, "crs", "uint8").image
    /\ gp_args = <<>>
    /\ gp_out = [feature_count |-> 0, features |-> <<>>]
    /\ gp_pc = "ready"
    /\ IdleMerge
    /\ IdleOverlaps
    /\ IdleImage
    /\ IdleArray
    /\ IdleGrid
    /\ IdleRest

\* The arguments of gridPositions: limits from 0 or 1 up to MaxLim, tiles up
\* to MaxTile a side, no start or any start up to MaxLim - 2, and as spacing
\* an integer (0 included), a pair of integers, or the floats 0.5 and 0.75.
Spacings ==
    {[kind |-> "int", v |-> v] : v \in 0..MaxStep}
      \cup {[kind |-> "pair", y |-> 1, x |-> MaxStep], [kind |-> "pair", y |-> MaxStep, x |-> 1]}
      \cup {[kind |-> "float", num |-> n] : n \in {2, 3}}

InitGrid ==
    /\ grid_args \in
          [ylims      : {0, 1} \X (2..MaxLim),
           xlims      : {0} \X (2..MaxLim),
           image_size : (1..MaxTile) \X (1..MaxTile),
           start      : {NoneValue} \cup [y : 0..(MaxLim - 2), x : 0..(MaxLim - 2)],
           spacing    : Spacings]
    /\ grid_out = [raised |-> "None"]
    /\ grid_pc = "ready"
    /\ IdleMerge
    /\ IdleOverlaps
    /\ IdleImage
    /\ IdleArray
    /\ IdleGpkg
    /\ IdleRest

vars == <<overlapVars, mergeVars, imageVars, arrayVars, gpkgVars, gridVars, restVars>>

Next == mergeMasks

Spec == Init /\ [][Next]_vars

SpecGuards == InitGuards /\ [][Next]_vars

SpecSymbology == InitSymbology /\ [][Next]_vars

NextOverlaps == CallPositionOverlaps

SpecOverlaps == InitOverlaps /\ [][NextOverlaps]_vars

NextImage == NewPolyImage \/ GetItem

SpecImage == InitImage /\ [][NextImage]_vars

NextArray == Select \/ Assign \/ AddBand

SpecArray == InitArray /\ [][NextArray]_vars

NextGpkg == ToGpkg

SpecGpkg == InitGpkg /\ [][NextGpkg]_vars

NextGrid == CallGridPositions

SpecGrid == InitGrid /\ [][NextGrid]_vars

NextTiff == CallGenerateTiff

SpecTiff == InitTiff /\ [][NextTiff]_vars

NextAlias == AliasSelect \/ AliasAddBand \/ AliasAssign

SpecAlias == InitAlias /\ [][NextAlias]_vars

NextDraw ==
    \/ DrawReset
    \/ DrawClose
    \/ DrawRmCategory
    \/ DrawSelection
    \/ DrawPoly
    \/ DrawChangeOfValue
    \/ DrawSaveImage

SpecDraw == InitDraw /\ [][NextDraw]_vars

(***************************************************************************)
(* Properties of the merge                                                 *)
(***************************************************************************)
\* Row k of the two sorted manifests describes tile k.
L1 == sort_values(list1)
L2 == sort_values(list2)
Tiles == DOMAIN L1

Done1(k)     == L1[k].priority = COMPLETED_PRIORITY
Done2(k)     == L2[k].priority = COMPLETED_PRIORITY
Only1(k)     == Done1(k) /\ ~Done2(k)
Only2(k)     == ~Done1(k) /\ Done2(k)
Both(k)      == Done1(k) /\ Done2(k)

\* Pixel p = <<row, col, band>> lies in the tile's rectangle [x,x+width) x [y,y+height).
Inside(p, t) ==
    /\ t.y <= p[1] /\ p[1] < t.y + t.height
    /\ t.x <= p[2] /\ p[2] < t.x + t.width

\* The rectangles of two tiles share at least one cell.
Intersects(a, b) ==
    /\ a.x < b.x + b.width  /\ b.x < a.x + a.width
    /\ a.y < b.y + b.height /\ b.y < a.y + a.height

MasksDiffer == mask1.shape # mask2.shape \/ mask1.dtype # mask2.dtype

\* C1: whenever the two mosaics differ in shape or in dtype, mergeMasks ends
\* without having written the merged mosaic or the merged manifest.
C1_MaskMismatchWritesNothing ==
    (merge_pc # "ready" /\ MasksDiffer) => (~out_mask.exists /\ ~out_list.exists)

C3_IsolatedTileOfSource1 ==
    merge_pc = "written" =>
      \A k \in Tiles :
         (Only1(k) /\ \A j \in Tiles : Done2(j) => ~Intersects(L1[k], L2[j]))
         => /\ out_list.rows[k].priority = COMPLETED_PRIORITY
            /\ out_list.rows[k].overlap = FALSE
            /\ out_list.rows[k].tile_list = 1
            /\ \A p \in DOMAIN mask1.pix :
                  Inside(p, L1[k]) => out_mask.pix[p] = mask1.pix[p]

\* C4: overlap is True exactly for the tiles completed in both sources and the
\* tiles completed in one source whose rectangle intersects a tile completed
\* in the other source; such tiles are completed in the merged manifest.
C4_OverlapFlag ==
    merge_pc = "written" =>
      \A k \in Tiles :
         /\ out_list.rows[k].overlap =
               (\/ Both(k)
                \/ Only1(k) /\ \E j \in Tiles : Done2(j) /\ Intersects(L1[k], L2[j])
                \/ Only2(k) /\ \E j \in Tiles : Done1(j) /\ Intersects(L2[k], L1[j]))
         /\ out_list.rows[k].overlap => out_list.rows[k].priority = COMPLETED_PRIORITY

(***************************************************************************)
(* Properties of positionOverlaps                                          *)
(***************************************************************************)
OvTile(i) == [x |-> ov_args.x_min[i], y |-> ov_args.y_min[i],
              width |-> ov_args.width[i], height |-> ov_args.height[i]]

\* Tile i ends on an axis exactly where tile j starts.
Touches(a, b) == a.x + a.width = b.x \/ a.y + a.height = b.y

\* C5: two tiles that only touch at an edge or at a corner are never reported
\* as overlapping, in either tile's list.
C5_TouchingTilesDoNotOverlap ==
    ov_pc = "done" =>
      \A i, j \in TileIdx :
         (i # j /\ (Touches(OvTile(i), OvTile(j)) \/ Touches(OvTile(j), OvTile(i))))
         => (j \notin overlap_list.lists[i] /\ i \notin overlap_list.lists[j])

\* C6: every pair of distinct tiles whose half-open rectangles share a cell
\* is reported, in both tiles' lists.
C6_IntersectingTilesOverlap ==
    ov_pc = "done" =>
      \A i, j \in TileIdx :
         (i # j /\ Intersects(OvTile(i), OvTile(j)))
         => (j \in overlap_list.lists[i] /\ i \in overlap_list.lists[j])

(***************************************************************************)
(* Properties of pixelsToPolys and PolyImage                               *)
(***************************************************************************)
\* The forward affine map of a geotransform: pixel corner (row, col) lies at
\* x = t0 + t1*col + t2*row, y = t3 + t4*col + t5*row.
Forward(t, row, col) ==
    <<t[1] + t[2] * col + t[3] * row, t[4] + t[5] * col + t[6] * row>>

\* The closed ring of the cell whose top-left pixel corner is (r, c).
CellRing(t, r, c) ==
    <<Forward(t, r, c), Forward(t, r, c + 1), Forward(t, r + 1, c + 1),
      Forward(t, r + 1, c), Forward(t, r, c)>>

\* The closed ring through the four extreme corners of a rows x cols grid.
OuterRing(t, rows, cols) ==
    <<Forward(t, 0, 0), Forward(t, 0, cols), Forward(t, rows, cols),
      Forward(t, rows, 0), Forward(t, 0, 0)>>

Built == img_pc \in {"built", "selected"}

\* C7: pixelsToPolys returns rows*cols polygons, row-major, the polygon at
\* flat index r*cols+c being the forward-affine image of cell (r, c), for
\* rotated and unrotated transforms.
C7_CellsAreAffineImages ==
    Built =>
      LET t == img_args.transform
          rows == img_args.shape[1]
          cols == img_args.shape[2]
      IN  /\ Len(poly_img.geometries) = rows * cols
          /\ \A r \in 0..(rows - 1), c \in 0..(cols - 1) :
                poly_img.geometries[r * cols + c + 1] = CellRing(t, r, c)

\* C8: for a transform with both rotation coefficients zero, the general-path
\* computation gives the same cells and the same frame as the fast path,
\* whose result the constructor stored.
C8_GeneralPathEqualsFastPath ==
    (Built /\ img_args.transform[3] = 0 /\ img_args.transform[5] = 0) =>
      LET general == pixelsToPolys_general(img_args.transform, img_args.shape)
      IN  /\ general.geom_list = poly_img.geometries
          /\ general.frame = poly_img.frame

\* C9: the frame is the ring through the forward-affine images of the grid
\* corners (0,0), (0,cols), (rows,cols), (rows,0), for every transform.
C9_FrameIsOuterRing ==
    Built =>
      poly_img.frame = OuterRing(img_args.transform, img_args.shape[1], img_args.shape[2])

\* C10: selecting rows [r0,r1) and columns [c0,c1) with step 1 returns a
\* PolyImage holding the cropped bands, a transform whose origin is the
\* position of the source's pixel corner (r0,c0) with the source's four linear
\* coefficients, and the outer ring of the cropped grid as frame.
C10_SelectCropsImage ==
    (img_pc = "selected" /\ sel_key.y_slice.step = 1 /\ sel_key.x_slice.step = 1) =>
      LET t  == poly_img.transform
          r0 == sel_key.y_slice.start
          r1 == sel_key.y_slice.stop
          c0 == sel_key.x_slice.start
          c1 == sel_key.x_slice.stop
          origin == Forward(t, r0, c0)
          moved  == <<origin[1], t[2], t[3], origin[2], t[5], t[6]>>
          names  == IF sel_key.band_key = ":" THEN {"a", "b"} ELSE {sel_key.band_key}
      IN  /\ sel.raised = "None"
          /\ DOMAIN sel.image.bands = names
          /\ \A b \in names :
                /\ sel.image.bands[b].shape = <<r1 - r0, c1 - c0>>
                /\ \A p \in DOMAIN sel.image.bands[b].at :
                      sel.image.bands[b].at[p] = poly_img.bands[b].at[<<r0 + p[1], c0 + p[2]>>]
          /\ sel.image.transform = moved
          /\ sel.image.frame = OuterRing(moved, r1 - r0, c1 - c0)

(***************************************************************************)
(* Properties of PolyArray and PolyImage under select, assign, add_band    *)
(***************************************************************************)
\* The class invariant of a collection.
WellFormed(c) ==
    /\ \A b \in DOMAIN c.bands : c.bands[b].shape = <<c.height, c.width>>
    /\ Len(c.geometries) = c.height * c.width
    /\ Range(c.band_names) = DOMAIN c.bands
    /\ Len(c.band_names) = Cardinality(DOMAIN c.bands)
    /\ IsPolyImage(c) => \A b \in DOMAIN c.bands : c.bands[b].dtype = c.dtype

\* C11: after construction and after every select, assign and add_band call
\* that returned without raising, the collection (the receiver, and the
\* collection returned when there is one) has every band of shape
\* (height, width), height*width geometries, band_names equal to the keys of
\* bands and, in a PolyImage, every band of the collection's dtype.
C11_ClassInvariant ==
    pa_call.op # "idle" =>
      /\ WellFormed(pa)
      /\ pa_call.op # "init" => WellFormed(pa_call.after)

\* The names an add_band call supplies, and whether its arrays have the
\* collection's shape.
Supplied(call) ==
    IF call.bands.kind = "str" THEN {call.bands.name} ELSE Range(call.bands.names)

ArraysFit(call) ==
    /\ call.bands.kind = "dict" =>
          \A n \in DOMAIN call.bands.arrays :
             call.bands.arrays[n].shape = <<call.before.height, call.before.width>>
    /\ (call.bands.kind = "str" /\ call.band_arrays # NoneValue) =>
          call.band_arrays.shape = <<call.before.height, call.before.width>>

\* The cells band n is to hold after the call.
NewContent(call, n) ==
    IF call.bands.kind = "dict" THEN call.bands.arrays[n].at
    ELSE IF call.band_arrays = NoneValue
    THEN [p \in (0..(call.before.height - 1)) \X (0..(call.before.width - 1)) |-> 0]
    ELSE IF call.bands.kind = "str" THEN call.band_arrays.at
    ELSE call.band_arrays.planes[IndexOf(call.bands.names, n)]

\* The collection that carries the outcome of an add_band call.
Outcome(call) == IF call.inplace THEN call.after ELSE call.ret

\* C12: add_band with replace=False and names none of which exists returns
\* without raising; the outcome holds the new bands, zero-filled or with the
\* supplied arrays, and every band the collection had.
C12_AddNewBands ==
    (/\ pa_call.op = "add_band"
     /\ ~pa_call.replace
     /\ ArraysFit(pa_call)
     /\ Supplied(pa_call) \cap Range(pa_call.before.band_names) = {})
    => /\ pa_call.raised = "None"
       /\ \A n \in Supplied(pa_call) :
             /\ n \in DOMAIN Outcome(pa_call).bands
             /\ Outcome(pa_call).bands[n].at = NewContent(pa_call, n)
       /\ \A b \in DOMAIN pa_call.before.bands :
             /\ b \in DOMAIN Outcome(pa_call).bands
             /\ Outcome(pa_call).bands[b] = pa_call.before.bands[b]

\* C13: add_band on a name that exists raises with replace=False and leaves
\* the bands as they were; with replace=True it returns, the supplied names
\* hold the new content and every other band is unchanged.
C13_ExistingName ==
    (/\ pa_call.op = "add_band"
     /\ ArraysFit(pa_call)
     /\ Supplied(pa_call) \cap Range(pa_call.before.band_names) # {})
    => IF ~pa_call.replace
       THEN /\ pa_call.raised # "None"
            /\ pa_call.after.bands = pa_call.before.bands
            /\ pa_call.ret = NoneValue
       ELSE /\ pa_call.raised = "None"
            /\ \A n \in Supplied(pa_call) :
                  Outcome(pa_call).bands[n].at = NewContent(pa_call, n)
            /\ \A b \in DOMAIN pa_call.before.bands \ Supplied(pa_call) :
                  Outcome(pa_call).bands[b] = pa_call.before.bands[b]

\* Cell p is addressed by the indices of an assignment.
Addressed(p, y_slice, x_slice) ==
    /\ y_slice.start <= p[1] /\ p[1] < y_slice.stop
    /\ x_slice.start <= p[2] /\ p[2] < x_slice.stop

\* C14: an assignment changes nothing but the addressed cells of the named
\* band (a scalar value is what they hold afterwards): the other cells of
\* that band, every other band, the geometries, height, width and band_names
\* stay; a key that is a list of names or a slice raises and changes nothing.
C14_AssignWritesOneBand ==
    pa_call.op = "assign" =>
      LET before == pa_call.before
          after  == pa_call.after
          key    == pa_call.band_key
      IN  /\ after.geometries = before.geometries
          /\ after.height = before.height /\ after.width = before.width
          /\ after.band_names = before.band_names
          /\ DOMAIN after.bands = DOMAIN before.bands
          /\ key.kind # "str" => (pa_call.raised # "None" /\ after = before)
          /\ pa_call.raised # "None" => after = before
          /\ \A b \in DOMAIN before.bands :
                (key.kind # "str" \/ b # key.name) => after.bands[b] = before.bands[b]
          /\ (key.kind = "str" /\ pa_call.raised = "None") =>
                /\ after.bands[key.name].shape = before.bands[key.name].shape
                /\ after.bands[key.name].dtype = before.bands[key.name].dtype
                /\ \A p \in DOMAIN before.bands[key.name].at :
                      IF Addressed(p, pa_call.y_slice, pa_call.x_slice)
                      THEN pa_call.value.ndim = 0 =>
                              after.bands[key.name].at[p] = pa_call.value.v
                      ELSE after.bands[key.name].at[p] = before.bands[key.name].at[p]

\* An assignment of a scalar returned, on a collection of two bands or more,
\* with some cells of the named band addressed and some not.
C14_Witness ==
    /\ pa_call.op = "assign"
    /\ pa_call.raised = "None"
    /\ pa_call.value.ndim = 0
    /\ Cardinality(DOMAIN pa_call.before.bands) >= 2
    /\ pa_call.after # pa_call.before
    /\ \E p, q \in DOMAIN pa_call.before.bands[pa_call.band_key.name].at :
          /\ Addressed(p, pa_call.y_slice, pa_call.x_slice)
          /\ ~Addressed(q, pa_call.y_slice, pa_call.x_slice)

(***************************************************************************)
(* Properties of to_gpkg                                                   *)
(***************************************************************************)
GpCells == (0..(gp_img.height - 1)) \X (0..(gp_img.width - 1))

GpValue(b, p) == gp_img.bands[b].at[p]

\* The polygon of cell p lies in an exported feature.
Exported(p) ==
    \E k \in DOMAIN gp_out.features :
       gp_img.geometries[p[1] * gp_img.width + p[2] + 1] \in gp_out.features[k].geometry

\* The bands a dict of null values lists.
Listed == DOMAIN gp_args.null_values.map \cap DOMAIN gp_img.bands

GridAdjacent(p, q) ==
    \/ p[1] = q[1] /\ (p[2] = q[2] + 1 \/ q[2] = p[2] + 1)
    \/ p[2] = q[2] /\ (p[1] = q[1] + 1 \/ q[1] = p[1] + 1)

\* The maximal edge-connected region of cells holding the value of p in band b.
RECURSIVE GrowRegion(_, _)
GrowRegion(region, b) ==
    LET next == region \cup {q \in GpCells :
                               \E p \in region : /\ GridAdjacent(p, q)
                                                 /\ GpValue(b, q) = GpValue(b, p)}
    IN  IF next = region THEN region ELSE GrowRegion(next, b)

Regions(b) == {GrowRegion({p}, b) : p \in GpCells}

\* The cells whose polygons make up feature k.
FeatureCells(k) ==
    {p \in GpCells :
       gp_img.geometries[p[1] * gp_img.width + p[2] + 1] \in gp_out.features[k].geometry}

\* No cell is filtered out: no cell holds a null value in any band tested.
NothingFiltered ==
    IF gp_args.null_values.dict
    THEN \A p \in GpCells : \A b \in Listed :
            GpValue(b, p) \notin gp_args.null_values.map[b]
    ELSE \A p \in GpCells : \A b \in DOMAIN gp_img.bands :
            GpValue(b, p) \notin gp_args.null_values.values

\* C17: with dissolve_by = B and no cell filtered out, the features are the
\* maximal edge-connected regions of equal B value, one feature each, carrying
\* the region's B value: 1 feature when B is uniform, H*W when all B values
\* differ.
C17_DissolveCountsRegions ==
    (gp_pc = "done" /\ gp_args.dissolve_by # "None" /\ NothingFiltered) =>
      LET B == gp_args.dissolve_by
      IN  /\ gp_out.feature_count = Cardinality(Regions(B))
          /\ gp_out.feature_count = Len(gp_out.features)
          /\ {FeatureCells(k) : k \in DOMAIN gp_out.features} = Regions(B)
          /\ \A k \in DOMAIN gp_out.features :
                \A p \in FeatureCells(k) : gp_out.features[k].attrs[B] = GpValue(B, p)
          /\ (\A p, q \in GpCells : GpValue(B, p) = GpValue(B, q))
                => gp_out.feature_count = 1
          /\ (\A p, q \in GpCells : p # q => GpValue(B, p) # GpValue(B, q))
                => gp_out.feature_count = gp_img.height * gp_img.width

\* A dissolve of an image whose cells (0,0) and (1,1) hold the same value and
\* meet only at a corner put them into different features.
C17_Witness ==
    /\ gp_pc = "done"
    /\ gp_args.dissolve_by = "a"
    /\ NothingFiltered
    /\ GpValue("a", <<0, 0>>) = GpValue("a", <<1, 1>>)
    /\ GpValue("a", <<0, 1>>) # GpValue("a", <<0, 0>>)
    /\ GpValue("a", <<1, 0>>) # GpValue("a", <<0, 0>>)
    /\ \E j, k \in DOMAIN gp_out.features :
          /\ j # k
          /\ <<0, 0>> \in FeatureCells(j)
          /\ <<1, 1>> \in FeatureCells(k)

(***************************************************************************)
(* Properties of gridPositions                                             *)
(***************************************************************************)
GridReturned == grid_pc = "done" /\ grid_out.raised = "None"

\* C18: whenever gridPositions returns (any accepted start or none, steps of
\* 1 or more), the row positions include ylims[0] and ylims[1] - tile height
\* and the column positions include xlims[0] and xlims[1] - tile width.
C18_ExtremesIncluded ==
    GridReturned =>
      /\ grid_args.ylims[1] \in Range(grid_out.pos_y)
      /\ grid_args.ylims[2] - grid_args.image_size[1] \in Range(grid_out.pos_y)
      /\ grid_args.xlims[1] \in Range(grid_out.pos_x)
      /\ grid_args.xlims[2] - grid_args.image_size[2] \in Range(grid_out.pos_x)

\* A call returned whose start lies one cell above the lower row limit while
\* the row step is 2: stepping back from the start skips ylims[0].
C18_Witness ==
    /\ GridReturned
    /\ grid_args.start # NoneValue
    /\ grid_args.start.y = grid_args.ylims[1] + 1
    /\ grid_args.spacing = [kind |-> "int", v |-> 2]
    /\ Len(grid_out.pos_y) > 2


(***************************************************************************)
(* C19: in the merged manifest, column tile_list (the source of the tile)  *)
(* is 1 for every tile completed in manifest 1, also when it is completed  *)
(* in both, 2 for every tile completed only in manifest 2 and -1 for every *)
(* tile completed in neither; the rows completed only in manifest 2 take   *)
(* every shared column, priority included, from manifest 2 and every other *)
(* row takes them from manifest 1.                                         *)
(***************************************************************************)
SharedColumns == {"x", "y", "width", "height", "filename", "priority"}

\* The manifests as the handler sorts them (lines 200-201).
Sorted1 == listsMasksCompatible(list1, list2, mask1, mask2).list1_df
Sorted2 == listsMasksCompatible(list1, list2, mask1, mask2).list2_df

CompletedIn1(k) == Sorted1[k].priority = COMPLETED_PRIORITY
CompletedIn2(k) == Sorted2[k].priority = COMPLETED_PRIORITY

C19_ManifestSources ==
    merge_pc = "written" =>
        /\ DOMAIN out_list.rows = DOMAIN Sorted1
        /\ \A k \in DOMAIN out_list.rows :
              LET row == out_list.rows[k]
                  src == IF ~CompletedIn1(k) /\ CompletedIn2(k) THEN Sorted2[k] ELSE Sorted1[k]
              IN  /\ row.tile_list = IF CompletedIn1(k) THEN 1
                                     ELSE IF CompletedIn2(k) THEN 2 ELSE -1
                  /\ \A col \in SharedColumns : row[col] = src[col]

\* A written merge with a tile completed only in manifest 2 and a tile
\* completed in both.
C19_Witness ==
    /\ merge_pc = "written"
    /\ \E k, j \in DOMAIN out_list.rows :
          /\ ~CompletedIn1(k) /\ CompletedIn2(k)
          /\ out_list.rows[k].filename = "mask2.tif"
          /\ out_list.rows[k].tile_list = 2
          /\ CompletedIn1(j) /\ CompletedIn2(j)
          /\ out_list.rows[j].filename = "mask1.tif"
          /\ out_list.rows[j].tile_list = 1

(***************************************************************************)
(* C20: a merge of structurally compatible inputs never fails because of   *)
(* the symbology metadata: whether the qclassipy_values slot of a mosaic   *)
(* is absent, holds no literal, holds no per-band mapping or lacks one of  *)
(* the mosaic's band names, the handler writes the merged mosaic and the   *)
(* merged manifest.                                                        *)
(***************************************************************************)
StructurallyCompatible ==
    /\ listsMasksCompatible(list1, list2, mask1, mask2).compatible
    /\ save_ok.mask /\ save_ok.list

C20_MetadataNeverFailsMerge ==
    (merge_pc # "ready" /\ StructurallyCompatible) =>
        /\ merge_pc = "written"
        /\ out_mask.exists
        /\ out_list.exists

(***************************************************************************)
(* C21: for every band and every value of the merged symbology, a value    *)
(* declared in mosaic 1's symbology has the label and the null flag of     *)
(* mosaic 1, also when mosaic 2 declares it differently; a value declared  *)
(* only in mosaic 2's symbology has the label and the null flag of         *)
(* mosaic 2; and every value declared on either side is in the merged      *)
(* symbology.                                                              *)
(***************************************************************************)
\* The names and the symbologies the handler works with, band by band.
MergedNames == merged_band_names(mask1.band_names, mask2.band_names)
SideNames(m) == IF valid_bands(m.band_names) THEN m.band_names ELSE MergedNames
SideDict(m)  == band_values_dict(m.metadata, valid_bands(m.band_names), MergedNames)
Declared(m, k) == SideDict(m).bands[SideNames(m)[k]]

\* The entry of value v in the merged symbology of band k comes from d.
TakenFrom(k, v, d) ==
    LET merged == out_mask.qclassipy_values[MergedNames[k]]
    IN  /\ v \in DOMAIN merged
        /\ merged[v].label = d[v].label
        /\ merged[v].is_null = d[v].is_null

C21_SymbologyPrecedence ==
    merge_pc = "written" =>
        \A k \in DOMAIN MergedNames :
           /\ \A v \in DOMAIN Declared(mask1, k) : TakenFrom(k, v, Declared(mask1, k))
           /\ \A v \in DOMAIN Declared(mask2, k) \ DOMAIN Declared(mask1, k) :
                 TakenFrom(k, v, Declared(mask2, k))

(***************************************************************************)
(* C22: band i of the merged mosaic is named as band i of mosaic 1 if that *)
(* name is not empty, else as band i of mosaic 2 if that name is not       *)
(* empty, else by its number counted from 1.                               *)
(***************************************************************************)
C22_MergedBandNames ==
    merge_pc = "written" =>
        /\ Len(out_mask.band_names) = Len(mask1.band_names)
        /\ \A k \in DOMAIN mask1.band_names :
              out_mask.band_names[k] =
                 IF mask1.band_names[k] # "" THEN mask1.band_names[k]
                 ELSE IF mask2.band_names[k] # "" THEN mask2.band_names[k]
                 ELSE str(k)

(***************************************************************************)
(* C29: the merged mosaic has as many bands as the input mosaics, band i   *)
(* holding the merged pixels of input band i, and the merged band names    *)
(* are pairwise distinct with one symbology per band, whatever the band    *)
(* names of the inputs (empty, twice the same, or reading like a number).  *)
(***************************************************************************)
C29_BandsPreserved ==
    merge_pc = "written" =>
        /\ out_mask.shape[1] = mask1.shape[1]
        /\ DOMAIN out_mask.pix = DOMAIN mask1.pix
        /\ \A p \in DOMAIN mask1.pix :
              out_mask.pix[p] =
                 IF \E k \in Tiles : Done1(k) /\ Inside(p, L1[k]) THEN mask1.pix[p]
                 ELSE IF \E k \in Tiles : Only2(k) /\ Inside(p, L2[k]) THEN mask2.pix[p]
                 ELSE mask1.pix[p]
        /\ Len(out_mask.band_names) = Cardinality(Range(out_mask.band_names))
        /\ Cardinality(DOMAIN out_mask.qclassipy_values) = mask1.shape[1]

(***************************************************************************)
(* C23: generateTiff writes the file with a GDAL type of the kind of the   *)
(* arrays' dtype (unsigned, signed or float) whose width is the smallest   *)
(* width of that kind the GDAL build has that is not below the dtype's     *)
(* item size; it never takes a narrower type or a type of another kind.    *)
(***************************************************************************)
\* The widths GDAL has for each kind: UInt64 and Int64 since 3.5, Int8 since
\* 3.7, Float16 since 3.11.
AvailableWidths(kind, gdal_version) ==
    IF kind = "u" THEN {1, 2, 4} \cup (IF gdal_version >= 305 THEN {8} ELSE {})
    ELSE IF kind = "i" THEN {2, 4} \cup (IF gdal_version >= 305 THEN {8} ELSE {})
                                   \cup (IF gdal_version >= 307 THEN {1} ELSE {})
    ELSE {4, 8} \cup (IF gdal_version >= 311 THEN {2} ELSE {})

C23_GdalTypeFitsDtype ==
    (tiff_pc = "done" /\ tiff_out.raised = "None") =>
        LET dtype == tiff_args.dtypes[1]
            wide  == {w \in AvailableWidths(dtype.kind, tiff_args.gdal_version) :
                         w >= dtype.itemsize}
        IN  /\ tiff_out.gdal_dtype.kind = dtype.kind
            /\ tiff_out.gdal_dtype.width >= dtype.itemsize
            /\ \A w \in wide : tiff_out.gdal_dtype.width <= w

(***************************************************************************)
(* C24: gridPositions accepts a start exactly when on each axis            *)
(* lims[0] <= start and start + tile size <= lims[1], the position         *)
(* lims[1] - tile size included, and raises ValueError otherwise; without  *)
(* a start it returns whenever such a position exists, also when the tile  *)
(* is as large as the region.                                              *)
(***************************************************************************)
\* A tile of the call's size with its corner at <<y, x>> lies inside the limits.
TileFits(y, x) ==
    /\ grid_args.ylims[1] <= y /\ y + grid_args.image_size[1] <= grid_args.ylims[2]
    /\ grid_args.xlims[1] <= x /\ x + grid_args.image_size[2] <= grid_args.xlims[2]

\* Both steps of the call are at least 1.
StepsPositive ==
    LET sp == spacing_yx(grid_args.spacing, grid_args.image_size[1], grid_args.image_size[2])
    IN  sp[1] >= 1 /\ sp[2] >= 1

C24_StartAccepted ==
    (grid_pc = "done" /\ StepsPositive) =>
        IF grid_args.start # NoneValue
        THEN IF TileFits(grid_args.start.y, grid_args.start.x)
             THEN grid_out.raised = "None"
             ELSE grid_out.raised = "ValueError"
        ELSE (\E y \in 0..MaxLim, x \in 0..MaxLim : TileFits(y, x))
                => grid_out.raised = "None"

(***************************************************************************)
(* C26: when the step on each axis is at least 1 and at most the tile size *)
(* on that axis, every tile returned by gridPositions lies inside the      *)
(* limits and the tiles together cover the region: every cell (row, col)   *)
(* with ylims[0] <= row < ylims[1] and xlims[0] <= col < xlims[1] lies in  *)
(* a returned tile.                                                        *)
(***************************************************************************)
StepsWithinTile ==
    LET sp == spacing_yx(grid_args.spacing, grid_args.image_size[1], grid_args.image_size[2])
    IN  /\ 1 <= sp[1] /\ sp[1] <= grid_args.image_size[1]
        /\ 1 <= sp[2] /\ sp[2] <= grid_args.image_size[2]

\* Cell <<row, col>> lies in the tile returned at index q.
InTile(row, col, q) ==
    /\ grid_out.pos_y[q] <= row /\ row < grid_out.pos_y[q] + grid_args.image_size[1]
    /\ grid_out.pos_x[q] <= col /\ col < grid_out.pos_x[q] + grid_args.image_size[2]

C26_TilesInsideAndCover ==
    (GridReturned /\ StepsWithinTile) =>
        /\ \A q \in DOMAIN grid_out.pos_y : TileFits(grid_out.pos_y[q], grid_out.pos_x[q])
        /\ \A row \in grid_args.ylims[1]..(grid_args.ylims[2] - 1),
              col \in grid_args.xlims[1]..(grid_args.xlims[2] - 1) :
                 \E q \in DOMAIN grid_out.pos_y : InTile(row, col, q)

\* A call with a given start and steps equal to the tile size, 2 by 2, that
\* returns more than two rows of tiles: the last row overlaps the one before.
C26_Witness ==
    /\ GridReturned
    /\ StepsWithinTile
    /\ grid_args.start # NoneValue
    /\ grid_args.image_size = <<2, 2>>
    /\ grid_args.spacing = [kind |-> "int", v |-> 2]
    /\ Len(grid_out.pos_y) > 4
    /\ \E q \in DOMAIN grid_out.pos_y : grid_out.pos_y[q] = grid_args.start.y + 2

(***************************************************************************)
(* C25: the compatibility check of the merge accepts two manifests exactly *)
(* when their multisets of rectangles (x, y, height, width) are equal,     *)
(* whatever the order of the rows of either manifest, also when several    *)
(* tiles share (x, y) with different sizes; when it rejects, nothing is    *)
(* written; when it accepts, row k of the two sorted manifests is the same *)
(* rectangle for every k.                                                  *)
(***************************************************************************)
\* How often rectangle r occurs in manifest l.
Occurrences(l, r) == Cardinality({k \in DOMAIN l : Rect(l[k]) = r})

SameRectangles ==
    /\ Len(list1) = Len(list2)
    /\ \A k \in DOMAIN list1 :
          Occurrences(list1, Rect(list1[k])) = Occurrences(list2, Rect(list1[k]))

C25_RectangleMultisets ==
    merge_pc # "ready" =>
        /\ SameRectangles <=> merge_pc # "aborted"
        /\ merge_pc = "aborted" => (~out_mask.exists /\ ~out_list.exists)
        /\ merge_pc # "aborted" => \A k \in DOMAIN L1 : Rect(L1[k]) = Rect(L2[k])

(***************************************************************************)
(* C28: a tile is completed in the merged manifest exactly when it is      *)
(* completed in at least one source manifest: a tile completed in a source *)
(* stays completed whatever its overlap flag, and a tile completed in no   *)
(* source is neither completed nor flagged as overlapping.                 *)
(***************************************************************************)
C28_CompletedIffInASource ==
    merge_pc = "written" =>
        \A k \in DOMAIN out_list.rows :
           /\ out_list.rows[k].priority = COMPLETED_PRIORITY
                 <=> (CompletedIn1(k) \/ CompletedIn2(k))
           /\ ~(CompletedIn1(k) \/ CompletedIn2(k)) => ~out_list.rows[k].overlap

\* A written merge with a tile completed only in manifest 2 that overlaps
\* nothing completed, and a tile completed in no manifest.
C28_Witness ==
    /\ merge_pc = "written"
    /\ \E k, j \in DOMAIN out_list.rows :
          /\ ~CompletedIn1(k) /\ CompletedIn2(k)
          /\ ~out_list.rows[k].overlap
          /\ out_list.rows[k].priority = COMPLETED_PRIORITY
          /\ ~CompletedIn1(j) /\ ~CompletedIn2(j)
          /\ out_list.rows[j].priority = UNCOMPLETED_PRIORITY

(***************************************************************************)
(* C27: a collection returned by a selection, or by add_band with          *)
(* inplace=False, shares no band data with its source: an assignment to    *)
(* either changes no band value of the other; and an assignment to a       *)
(* collection built from a caller's dict or 3D array changes no array of   *)
(* the caller.                                                             *)
(***************************************************************************)
\* The band values of collection c are the same in memories m1 and m2.
SameBands(c, m1, m2) ==
    \A name \in DOMAIN c.bands : Read(m1, c.bands[name]) = Read(m2, c.bands[name])

C27_NoSharedBandData ==
    al_pc = "assigned" =>
        /\ al_last.target = "src" => SameBands(al_dst, al_last.before, al_mem)
        /\ al_last.target = "dst" => SameBands(al_src, al_last.before, al_mem)
        /\ \A v \in al_caller : Read(al_last.before, v) = Read(al_mem, v)

(***************************************************************************)
(* Properties of the Draw-mask tab                                         *)
(***************************************************************************)
\* C30: whatever the user drew, edited, removed and saved, img_saved is True
\* only if the values of the loaded tile are those the raster holds, and a
\* tile whose values differ from the raster's is never closed or replaced
\* without the unsaved-changes message having been shown.
C30_SavedMeansWritten ==
    /\ dm_pc = "loaded" /\ dm_img_saved => dm_bands = dm_raster.pix
    /\ dm_closing.changed /\ dm_closing.ret => dm_closing.warned

=========================================================================
